---------------------------- MODULE Spec2Model ----------------------------
(***************************************************************************)
(* Nutrition statistics of the meal-logging server                         *)
(* (src/server/src/services/statistics.ts), with the meal table it reads   *)
(* (written by src/server/src/services/nutrition.ts) and the quota of      *)
(* meal analyses that nutrition.ts keeps in the user row.                  *)
(*                                                                         *)
(* Numbers.  A JavaScript number that holds a nutrient quantity is carried *)
(* as an exact fraction: a stored quantity is a whole number of 1/Scale    *)
(* units, a derived quantity (an average, a percentage) is a record        *)
(* [n |-> numerator, d |-> denominator] with d > 0.  Comparisons and       *)
(* Math.round are computed on the exact fraction.                          *)
(*                                                                         *)
(* Time.  An instant is a whole number of minutes.  The server's local     *)
(* clock is the instant plus utcOffset: the zone sets its clock back one   *)
(* hour at DstEndsAt.                                                      *)
(***************************************************************************)
EXTENDS Integers, Sequences, FiniteSets, Bags

VARIABLES
    store,      \* the meal table of the user: a bag of meal rows
    pc,         \* position of the statistics request
    period,     \* the request's period argument
    endDate,    \* the request's endDate (new Date())
    startDate,  \* the request's startDate
    meals,      \* the rows the request fetched, ordered by upload_time
    result,     \* the NutritionStatistics the request returned
    scoreIn,    \* argument of a direct call of calculateNutritionScore
    scoreOut,   \* its return value, once it has returned: <<value>>
    tables,     \* the meal table of each user, when there are several users
    reqs,       \* the statistics requests in progress side by side
    userRow,    \* the row of the user table that analyzeMeal reads and writes
    calls,      \* the analyzeMeal calls in progress side by side
    clock,      \* the time new Date() returns
    admitted,   \* calls that reached the analysis since the last reset
    mealRows,   \* the meal table by meal_id, for the methods on one meal
    ops         \* the calls of those methods in progress side by side

vars ==
    <<store, pc, period, endDate, startDate, meals, result, scoreIn, scoreOut,
      tables, reqs, userRow, calls, clock, admitted, mealRows, ops>>

statsVars == <<store, pc, period, endDate, startDate, meals, result>>

scoreVars == <<scoreIn, scoreOut>>

concVars == <<tables, reqs>>

quotaVars == <<userRow, calls, clock, admitted>>

mealVars == <<mealRows, ops>>

---------------------------------------------------------------------------
(* Bounds of the model *)

\* most rows the meal table holds
MaxMeals == 3

\* a stored nutrient quantity is a multiple of 1/Scale
Scale == 2

\* most copies of one meal in a meal table that is filled with copies
MaxBulk == 40

\* most blank, highly processed rows beside those copies
MaxBlank == 3

\* most rows in the meal table of one user, when there are several users
MaxUserMeals == 1

\* the days the clock of the analysis quota runs
MaxDays == 2

---------------------------------------------------------------------------
(* Numbers *)

Max(a, b) == IF a >= b THEN a ELSE b

Min(a, b) == IF a <= b THEN a ELSE b

\* the fraction n/d
Frac(n, d) == [n |-> n, d |-> d]

\* x >= k, x > k, x <= k, x < k for a fraction x and an integer k
Geq(x, k) == x.n >= k * x.d

Gt(x, k) == x.n > k * x.d

Leq(x, k) == x.n <= k * x.d

Lt(x, k) == x.n < k * x.d

\* Math.round: the integer nearest to x, a tie going up
MathRound(x) == (2 * x.n + x.d) \div (2 * x.d)

\* Math.ceil
MathCeil(x) == -((-x.n) \div x.d)

\* Math.floor
MathFloor(x) == x.n \div x.d

\* Math.min(k, x) for an integer k and a fraction x
MathMinInt(k, x) == IF Geq(x, k) THEN Frac(k, 1) ELSE x

\* the value "v || 0" of a stored quantity: null counts as 0
Null == -1

\* the stored quantity NaN; NaN || 0 is 0 as well
NaN == -2

OrZero(v) == IF v = Null \/ v = NaN THEN 0 ELSE v

\* the sum of a sequence of integers
RECURSIVE Sum(_)
Sum(s) == IF s = <<>> THEN 0 ELSE Head(s) + Sum(Tail(s))

\* Array.prototype.map
Map(s, f(_)) == [i \in 1..Len(s) |-> f(s[i])]

---------------------------------------------------------------------------
(* Strings: a string is the sequence of its characters *)

DigitChars == <<"0", "1", "2", "3", "4", "5", "6", "7", "8", "9">>

\* Number.prototype.toString of a natural number
RECURSIVE toString(_)
toString(k) ==
    IF k < 10 THEN <<DigitChars[k + 1]>>
    ELSE toString(k \div 10) \o <<DigitChars[(k % 10) + 1]>>

\* String.prototype.padStart(2, '0')
RECURSIVE PadStart2(_)
PadStart2(s) == IF Len(s) >= 2 THEN s ELSE PadStart2(<<"0">> \o s)

\* s.split(':'): the pieces of s between the colons
RECURSIVE SplitColon(_)
SplitColon(s) ==
    LET colons == {i \in 1..Len(s) : s[i] = ":"}
    IN  IF colons = {} THEN <<s>>
        ELSE LET c == CHOOSE i \in colons : \A j \in colons : i <= j
             IN  <<SubSeq(s, 1, c - 1)>> \o SplitColon(SubSeq(s, c + 1, Len(s)))

\* Number(s) of a string of decimal digits
DigitValue(ch) == CHOOSE k \in 0..9 : DigitChars[k + 1] = ch

RECURSIVE ToNumber(_)
ToNumber(s) ==
    IF s = <<>> THEN 0
    ELSE 10 * ToNumber(SubSeq(s, 1, Len(s) - 1)) + DigitValue(s[Len(s)])

---------------------------------------------------------------------------
(* Time: Date, in minutes *)

MinutesPerHour == 60

\* 1000 * 60 * 60 * 24 milliseconds
MinutesPerDay == 24 * MinutesPerHour

\* the instant of local day d, h:m, on the clock as it runs before DstEndsAt
At(d, h, m) == d * MinutesPerDay + h * MinutesPerHour + m

\* the instant the zone sets its clock back one hour (02:00 becomes 01:00)
DstEndsAt == At(40, 2, 0)

\* what the local clock shows, minus the instant
utcOffset(t) == IF t < DstEndsAt THEN 0 ELSE -MinutesPerHour

\* the local clock reading of instant t
LocalTime(t) == t + utcOffset(t)

\* the instant of a local clock reading; a reading that occurs twice is the
\* earlier instant
FromLocalTime(l) == IF l < DstEndsAt THEN l ELSE l + MinutesPerHour

\* Date.prototype.getHours, getMinutes
getHours(t) == (LocalTime(t) % MinutesPerDay) \div MinutesPerHour

getMinutes(t) == LocalTime(t) % MinutesPerHour

\* d.setDate(d.getDate() - days): the same local clock reading, days earlier
setDateBack(t, days) == FromLocalTime(LocalTime(t) - days * MinutesPerDay)

\* the instants at which a request is made: before the clock change, and
\* three days after it
NowSet == {At(39, 15, 0), At(43, 15, 0) + MinutesPerHour}

\* the upload times of meals
MealTimes ==
    { At(15, 7, 45), At(33, 9, 0), At(38, 21, 0), At(39, 15, 0),
      At(43, 14, 30) + MinutesPerHour }

---------------------------------------------------------------------------
(* The meal table *)

\* k whole units of a nutrient, as a stored quantity
Units(k) == k * Scale

\* The nutrient columns of the rows that are saved.  WeekOfFullDays feeds a
\* 7-day week at the goal and at the top of every band; WeekJustShort stays
\* one step under each of them; Snack is an ordinary meal with fractional
\* quantities and no processing level; Blank has every nutrient column null.
WeekOfFullDays ==
    [calories |-> Units(2000 * 7), protein_g |-> Units(120 * 7),
     carbs_g |-> Units(250 * 7) + 1, fats_g |-> Units(70 * 7),
     fiber_g |-> Units(25 * 7), sodium_mg |-> Units(2300 * 7),
     sugar_g |-> Units(50 * 7), liquids_ml |-> Units(2000 * 7),
     processing_level |-> "UNPROCESSED"]

WeekJustShort ==
    [calories |-> Units(1790 * 7), protein_g |-> Units(120 * 7) - 1,
     carbs_g |-> Units(200 * 7), fats_g |-> Units(60 * 7) + 1,
     fiber_g |-> Units(25 * 7) - 1, sodium_mg |-> Null,
     sugar_g |-> Units(30 * 7), liquids_ml |-> Null,
     processing_level |-> "PROCESSED"]

Snack ==
    [calories |-> Units(450) + 1, protein_g |-> Units(12) + 1,
     carbs_g |-> Units(60) + 1, fats_g |-> Units(20) + 1,
     fiber_g |-> 0, sodium_mg |-> Units(800), sugar_g |-> Units(25) + 1,
     liquids_ml |-> Units(330), processing_level |-> "NULL"]

Blank ==
    [calories |-> Null, protein_g |-> Null, carbs_g |-> Null,
     fats_g |-> Null, fiber_g |-> Null, sodium_mg |-> Null,
     sugar_g |-> Null, liquids_ml |-> Null,
     processing_level |-> "HIGHLY_PROCESSED"]

MealData == {WeekOfFullDays, WeekJustShort, Snack, Blank}

\* a row saved with calories that are not a number
Malformed ==
    [calories |-> NaN, protein_g |-> Units(30), carbs_g |-> Units(40),
     fats_g |-> Units(10), fiber_g |-> Units(5), sodium_mg |-> Null,
     sugar_g |-> Units(8), liquids_ml |-> Null,
     processing_level |-> "UNPROCESSED"]

\* a row of the meal table
Meal(t, data) ==
    [upload_time |-> t, calories |-> data.calories,
     protein_g |-> data.protein_g, carbs_g |-> data.carbs_g,
     fats_g |-> data.fats_g, fiber_g |-> data.fiber_g,
     sodium_mg |-> data.sodium_mg, sugar_g |-> data.sugar_g,
     liquids_ml |-> data.liquids_ml,
     processing_level |-> data.processing_level]

\* the rows of a bag, ordered by upload_time ascending
RECURSIVE OrderByUploadTime(_)
OrderByUploadTime(b) ==
    IF BagToSet(b) = {} THEN <<>>
    ELSE LET first == CHOOSE m \in BagToSet(b) :
                          \A o \in BagToSet(b) : m.upload_time <= o.upload_time
         IN  <<first>> \o OrderByUploadTime(b (-) SetToBag({first}))

\* prisma.meal.findMany({where: {upload_time: {gte, lte}}, orderBy: asc})
findMany(table, gte, lte) ==
    SelectSeq(OrderByUploadTime(table),
              LAMBDA m : m.upload_time >= gte /\ m.upload_time <= lte)

---------------------------------------------------------------------------
(* Several users, several requests, and the analysis quota: what their     *)
(* variables hold while only one request of one user is looked at          *)

Users == {"u1", "u2"}

RequestIds == {"r1", "r2"}

NoUser == "nobody"

IdleRequest ==
    [pc |-> "idle", user |-> NoUser, period |-> "none", endDate |-> 0,
     startDate |-> 0, meals |-> <<>>, result |-> [none |-> TRUE]]

NoSideBySide ==
    /\ tables = [u \in Users |-> EmptyBag]
    /\ reqs = [r \in RequestIds |-> IdleRequest]

\* the analyzeMeal calls of the user; each is made once
CallIds == {"a", "b", "c"}

\* a call that has not read the user row holds no copy of it
\* the call has neither returned nor thrown
NoOutcome == [none |-> TRUE]

IdleCall ==
    [pc |-> "idle", aiRequestsCount |-> 0, aiRequestsResetAt |-> 0,
     out |-> NoOutcome]

NoAnalysis ==
    /\ userRow = [aiRequestsCount |-> 0, aiRequestsResetAt |-> 0,
                  subscription_type |-> "FREE"]
    /\ calls = [c \in CallIds |-> IdleCall]
    /\ clock = 0
    /\ admitted = 0

\* the meal_id values the table gives out; the autoincrement stops there
MaxMealId == 3

\* the clock of the methods on one meal stops there
MaxMealClock == 1

MealIds == 1..MaxMealId

\* no row has this meal_id
NoMeal == [none |-> TRUE]

\* the calls of updateMeal, saveMealFeedback, toggleMealFavorite and
\* duplicateMeal; each is made once
OpIds == {"p", "q"}

\* a call that is not made: no method, no arguments, no meal found
IdleOp ==
    [pc |-> "idle", method |-> "none", user_id |-> NoUser, mealId |-> <<>>,
     feedback |-> NoOutcome, meal |-> NoMeal, analysis |-> NoOutcome,
     out |-> NoOutcome]

NoMealCalls ==
    /\ mealRows = [id \in MealIds |-> NoMeal]
    /\ ops = [o \in OpIds |-> IdleOp]

---------------------------------------------------------------------------
(* StatisticsService: the helpers *)

Periods == {"week", "month", "custom"}

\* the values the period argument takes at run time: the three of its type,
\* and one that is none of them
PeriodArgs == Periods \cup {"year"}

\* the days the switch on period sets startDate back; the switch has no
\* default case
periodDays(p) ==
    CASE p = "week" -> 7
      [] p = "month" -> 30
      [] p = "custom" -> 14
      [] OTHER -> 0

\* Math.max(1, Math.ceil((endDate - startDate) / (1000 * 60 * 60 * 24)))
totalDaysOf(start, end) == Max(1, MathCeil(Frac(end - start, MinutesPerDay)))

\* meals.reduce(...): the total of one column, null counting as 0
total(ms, col) == Sum(Map(ms, LAMBDA m : OrZero(m[col])))

\* a total of stored quantities divided by a number of days
perDay(units, days) == Frac(units, Scale * days)

\* Faulty variant of goalAchievement: the cap at 100 is missing.
goalAchievement_NoCap(averageCaloriesDaily) ==
    Frac(averageCaloriesDaily.n * 100, averageCaloriesDaily.d * 2000)

\* Faulty variant of goalAchievement: the percentage is rounded before it is
\* scored.
goalAchievement_Rounded(averageCaloriesDaily) ==
    Frac(MathRound(MathMinInt(100, Frac(averageCaloriesDaily.n * 100,
                                        averageCaloriesDaily.d * 2000))), 1)

\* Faulty variant of goalAchievement: the cap is at 150, over the bands.
goalAchievement_CapAt150(averageCaloriesDaily) ==
    MathMinInt(150, Frac(averageCaloriesDaily.n * 100,
                         averageCaloriesDaily.d * 2000))

\* Math.min(100, (averageCaloriesDaily / calorieGoal) * 100)
goalAchievement(averageCaloriesDaily) ==
    MathMinInt(100, Frac(averageCaloriesDaily.n * 100,
                         averageCaloriesDaily.d * 2000))

\* the number of processed and highly processed meals
processedFoodCount(ms) ==
    Len(SelectSeq(ms, LAMBDA m : m.processing_level = "HIGHLY_PROCESSED"
                                 \/ m.processing_level = "PROCESSED"))

\* meals.length > 0 ? (processedFoodCount / meals.length) * 100 : 0
processedShare(ms) ==
    IF Len(ms) > 0 THEN Frac(processedFoodCount(ms) * 100, Len(ms))
    ELSE Frac(0, 1)

\* Faulty variant of dayIndexOf: the quotient is rounded, not floored.
dayIndexOf_Rounded(m, start) ==
    MathRound(Frac(m.upload_time - start, MinutesPerDay))

\* Math.floor((mealDate - startDate) / (1000 * 60 * 60 * 24))
dayIndexOf(m, start) == MathFloor(Frac(m.upload_time - start, MinutesPerDay))

\* meals.forEach(...): each meal is added to the day its dayIndex names,
\* when that is one of the 7 days
RECURSIVE addToDayTotals(_, _, _)
addToDayTotals(ms, start, dayTotals) ==
    IF ms = <<>> THEN dayTotals
    ELSE LET meal == Head(ms)
             dayIndex == dayIndexOf(meal, start)
             added ==
                 IF dayIndex >= 0 /\ dayIndex < 7
                 THEN [dayTotals EXCEPT ![dayIndex + 1] =
                          [calories |-> @.calories + OrZero(meal.calories),
                           protein |-> @.protein + OrZero(meal.protein_g),
                           carbs |-> @.carbs + OrZero(meal.carbs_g),
                           fats |-> @.fats + OrZero(meal.fats_g),
                           count |-> @.count + 1]]
                 ELSE dayTotals
         IN  addToDayTotals(Tail(ms), start, added)

\* Math.round of a stored quantity
roundUnits(units) == MathRound(Frac(units, Scale))

calculateWeeklyTrends(ms, start, end) ==
    LET zero == [calories |-> 0, protein |-> 0, carbs |-> 0, fats |-> 0,
                 count |-> 0]
        dayTotals == addToDayTotals(ms, start, [i \in 1..7 |-> zero])
    IN  [calories |-> [i \in 1..7 |-> roundUnits(dayTotals[i].calories)],
         protein |-> [i \in 1..7 |-> roundUnits(dayTotals[i].protein)],
         carbs |-> [i \in 1..7 |-> roundUnits(dayTotals[i].carbs)],
         fats |-> [i \in 1..7 |-> roundUnits(dayTotals[i].fats)]]

\* Faulty variant of goalPoints: the upper ends of the bands are exclusive.
goalPoints_ExclusiveTop(g) ==
    IF Geq(g, 90) /\ Lt(g, 110) THEN 20
    ELSE IF Geq(g, 80) /\ Lt(g, 120) THEN 15
    ELSE IF Geq(g, 70) /\ Lt(g, 130) THEN 10
    ELSE 0

\* the four terms of the score
goalPoints(g) ==
    IF Geq(g, 90) /\ Leq(g, 110) THEN 20
    ELSE IF Geq(g, 80) /\ Leq(g, 120) THEN 15
    ELSE IF Geq(g, 70) /\ Leq(g, 130) THEN 10
    ELSE 0

\* Faulty variant of proteinPoints: the top band adds 5 instead of 15.
proteinPoints_TopBandFive(p) ==
    IF Geq(p, 120) THEN 5
    ELSE IF Geq(p, 80) THEN 10
    ELSE IF Geq(p, 50) THEN 5
    ELSE 0

proteinPoints(p) ==
    IF Geq(p, 120) THEN 15
    ELSE IF Geq(p, 80) THEN 10
    ELSE IF Geq(p, 50) THEN 5
    ELSE 0

fiberPoints(f) ==
    IF Geq(f, 25) THEN 10
    ELSE IF Geq(f, 15) THEN 7
    ELSE IF Geq(f, 10) THEN 5
    ELSE 0

processedPoints(x) ==
    IF Leq(x, 10) THEN 5
    ELSE IF Leq(x, 20) THEN 0
    ELSE IF Leq(x, 40) THEN -5
    ELSE -15

calculateNutritionScore(data) ==
    LET score == 50
                 + goalPoints(data.calorieGoalAchievementPercent)
                 + proteinPoints(data.averageProteinDaily)
                 + fiberPoints(data.averageFiberDaily)
                 + processedPoints(data.processedFoodPercentage)
    IN  Max(1, Min(100, MathRound(Frac(score, 1))))

---------------------------------------------------------------------------
(* StatisticsService: insights, recommendations, eating pattern *)

\* private static generateInsights(data), the threshold rules; the texts are
\* named by their first words.  The class declares a second static method of
\* this name further down (generateInsightsAsync), and a class keeps the
\* last method declared under a name: no call reaches this one.
generateInsights(data) ==
    LET mealsPerDay == Frac(data.mealCount, data.totalDays)
    IN  (IF data.nutritionScore >= 80 THEN <<"Excellent nutrition habits">>
         ELSE IF data.nutritionScore >= 60 THEN <<"Good nutrition foundation">>
         ELSE <<"Could benefit from adjustments">>)
        \o (IF Geq(data.averageProteinDaily, 120) THEN <<"Great protein intake">>
            ELSE IF Lt(data.averageProteinDaily, 80)
                 THEN <<"Consider increasing protein">>
            ELSE <<>>)
        \o (IF Gt(data.processedFoodPercentage, 30)
            THEN <<"High processed food intake">>
            ELSE IF Lt(data.processedFoodPercentage, 15)
                 THEN <<"Excellent focus on whole foods">>
            ELSE <<>>)
        \o (IF Lt(mealsPerDay, 2) THEN <<"Consider logging more meals">>
            ELSE IF Gt(mealsPerDay, 5) THEN <<"Ensure portion control">>
            ELSE <<>>)

\* Faulty variant of generateRecommendations: the reminder is pushed first.
generateRecommendations_ReminderFirst(data) ==
    <<"Stay hydrated and maintain regular meal timing">>
    \o (IF Lt(data.averageProteinDaily, 100) THEN <<"Add lean proteins">>
        ELSE <<>>)
    \o (IF Lt(data.averageFiberDaily, 20) THEN <<"Increase fiber intake">>
        ELSE <<>>)
    \o (IF Gt(data.processedFoodPercentage, 25)
        THEN <<"Replace processed foods">> ELSE <<>>)
    \o (IF Lt(data.averageCaloriesDaily, 1500) THEN <<"Eating enough">>
        ELSE IF Gt(data.averageCaloriesDaily, 2500)
             THEN <<"Monitor portion sizes">>
        ELSE <<>>)

\* the recommendations, by the first words of each text
generateRecommendations(data) ==
    (IF Lt(data.averageProteinDaily, 100) THEN <<"Add lean proteins">> ELSE <<>>)
    \o (IF Lt(data.averageFiberDaily, 20) THEN <<"Increase fiber intake">>
        ELSE <<>>)
    \o (IF Gt(data.processedFoodPercentage, 25)
        THEN <<"Replace processed foods">> ELSE <<>>)
    \o (IF Lt(data.averageCaloriesDaily, 1500) THEN <<"Eating enough">>
        ELSE IF Gt(data.averageCaloriesDaily, 2500)
             THEN <<"Monitor portion sizes">>
        ELSE <<>>)
    \o <<"Stay hydrated and maintain regular meal timing">>

\* a literal "HH:MM"
Clock(h1, h2, m1, m2) == <<h1, h2, ":", m1, m2>>

\* formatHour: hour is a fraction of hours
formatHour(hour) ==
    LET h == MathFloor(hour)
        m == MathRound(Frac((hour.n - h * hour.d) * 60, hour.d))
    IN  PadStart2(toString(h)) \o <<":">> \o PadStart2(toString(m))

\* date.getHours() + date.getMinutes() / 60
hourOfDay(m) ==
    Frac(getHours(m.upload_time) * 60 + getMinutes(m.upload_time), 60)

\* Faulty variant of minHour: the hour of the first meal is taken.
minHour_First(hours) == hours[1]

\* Math.min(...hours), Math.max(...hours): the hours share one denominator
minHour(hours) ==
    CHOOSE x \in {hours[i] : i \in 1..Len(hours)} :
        \A i \in 1..Len(hours) : x.n <= hours[i].n

maxHour(hours) ==
    CHOOSE x \in {hours[i] : i \in 1..Len(hours)} :
        \A i \in 1..Len(hours) : x.n >= hours[i].n

calculateEatingHours(ms) ==
    IF Len(ms) = 0
    THEN [start |-> Clock("0", "8", "0", "0"), end |-> Clock("2", "0", "0", "0")]
    ELSE LET hours == Map(ms, hourOfDay)
         IN  [start |-> formatHour(minHour(hours)),
              end |-> formatHour(maxHour(hours))]

\* Faulty variant of calculateIntermittentFasting: an end equal to the start
\* takes the first branch.
calculateIntermittentFasting_EqualIsNormal(eatingHours) ==
    LET startParts == Map(SplitColon(eatingHours.start), ToNumber)
        endParts == Map(SplitColon(eatingHours.end), ToNumber)
        startMinutes == startParts[1] * 60 + startParts[2]
        endMinutes == endParts[1] * 60 + endParts[2]
        fastingMinutes ==
            IF endMinutes >= startMinutes
            THEN (24 * 60) - (endMinutes - startMinutes)
            ELSE startMinutes - endMinutes
    IN  MathRound(Frac(fastingMinutes, 60))

calculateIntermittentFasting(eatingHours) ==
    LET startParts == Map(SplitColon(eatingHours.start), ToNumber)
        endParts == Map(SplitColon(eatingHours.end), ToNumber)
        startMinutes == startParts[1] * 60 + startParts[2]
        endMinutes == endParts[1] * 60 + endParts[2]
        fastingMinutes ==
            IF endMinutes > startMinutes
            THEN (24 * 60) - (endMinutes - startMinutes)
            ELSE startMinutes - endMinutes
    IN  MathRound(Frac(fastingMinutes, 60))

\* hourCounts[hour] after the forEach
hourCount(ms, hour) ==
    Len(SelectSeq(ms, LAMBDA m : getHours(m.upload_time) = hour))

\* Object.keys(hourCounts): integer keys come in ascending order
RECURSIVE hourKeys(_, _)
hourKeys(ms, from) ==
    IF from > 23 THEN <<>>
    ELSE (IF hourCount(ms, from) > 0 THEN <<from>> ELSE <<>>)
         \o hourKeys(ms, from + 1)

\* keys.reduce((a, b) => hourCounts[a] > hourCounts[b] ? a : b)
RECURSIVE reduceMostCommon(_, _, _)
reduceMostCommon(ms, a, rest) ==
    IF rest = <<>> THEN a
    ELSE reduceMostCommon(ms,
             IF hourCount(ms, a) > hourCount(ms, Head(rest)) THEN a
             ELSE Head(rest),
             Tail(rest))

getMostCommonMealTime(ms) ==
    IF Len(ms) = 0 THEN Clock("1", "2", "0", "0")
    ELSE LET keys == hourKeys(ms, 0)
             mostCommonHour == reduceMostCommon(ms, Head(keys), Tail(keys))
         IN  PadStart2(toString(mostCommonHour)) \o <<":", "0", "0">>

\* Faulty variant of calculateFullLoggingPercentage: no cap at 100.
calculateFullLoggingPercentage_NoCap(ms, totalDays) ==
    LET expectedMeals == totalDays * 3
    IN  MathRound(Frac(Len(ms) * 100, expectedMeals))

calculateFullLoggingPercentage(ms, totalDays) ==
    LET expectedMeals == totalDays * 3
    IN  Min(100, MathRound(Frac(Len(ms) * 100, expectedMeals)))

\* Faulty variant of calculateMissedMeals: the meals are counted in the meal
\* table as it is now, not in the fetched list.
calculateMissedMeals_CountsTable(totalDays, mealCount) ==
    Max(0, totalDays * 3
           - Sum([i \in 1..2 |->
                     BagCardinality(tables[IF i = 1 THEN "u1" ELSE "u2"])]))

\* Faulty variant of calculateMissedMeals: the difference is not floored at 0.
calculateMissedMeals_NoFloor(totalDays, mealCount) ==
    LET expectedMeals == totalDays * 3
    IN  expectedMeals - mealCount

calculateMissedMeals(totalDays, mealCount) ==
    LET expectedMeals == totalDays * 3
    IN  Max(0, expectedMeals - mealCount)

---------------------------------------------------------------------------
(* StatisticsService.getNutritionStatistics *)

\* The insights field of a statistics object holds an array of texts or a
\* Promise; the value says which.
ArrayOf(texts) == [array |-> texts]

\* the Promise an async method returns before it has settled
PendingPromise == [promise |-> "pending"]

\* the Promise after the method has returned value
Fulfilled(value) == [promise |-> "fulfilled", value |-> value]

\* the Promise after the method has thrown reason
Rejected(reason) == [promise |-> "rejected", reason |-> reason]

\* static async generateInsights(userId), the last method the class declares
\* under this name and so the one this.generateInsights(...) calls.  It
\* calls getNutritionStatistics(userId, "month"), which runs to its own
\* await of prisma.meal.findMany, and hands back a Promise.
generateInsightsAsync(userId) == PendingPromise

\* what generateInsights(userId) returns once the statistics are there
insightsOf(statistics) ==
    [insights |-> statistics.insights,
     recommendations |-> statistics.recommendations]

\* Faulty variant of getDefaultStatistics: the score is zeroed like the
\* averages.
getDefaultStatistics_ZeroScore ==
    [averageCaloriesDaily |-> 0,
     calorieGoalAchievementPercent |-> 0,
     averageProteinDaily |-> 0,
     averageCarbsDaily |-> 0,
     averageFatsDaily |-> 0,
     averageFiberDaily |-> 0,
     averageSodiumDaily |-> 0,
     averageSugarDaily |-> 0,
     averageFluidsDaily |-> 0,
     processedFoodPercentage |-> 0,
     fullLoggingPercentage |-> 0,
     averageEatingHours |->
         [start |-> Clock("0", "8", "0", "0"), end |-> Clock("2", "0", "0", "0")],
     intermittentFastingHours |-> 12,
     missedMealsAlert |-> 0,
     nutritionScore |-> 0,
     weeklyTrends |->
         [calories |-> <<0, 0, 0, 0, 0, 0, 0>>,
          protein |-> <<0, 0, 0, 0, 0, 0, 0>>,
          carbs |-> <<0, 0, 0, 0, 0, 0, 0>>,
          fats |-> <<0, 0, 0, 0, 0, 0, 0>>],
     insights |-> ArrayOf(<<"Start logging meals to see personalized insights!">>),
     recommendations |-> <<"Begin by logging your meals regularly">>,
     generalStats |->
         [averageCaloriesPerMeal |-> 0,
          averageProteinPerMeal |-> 0,
          mostCommonMealTime |-> Clock("1", "2", "0", "0"),
          averageMealsPerDay |-> Frac(0, 10)]]

getDefaultStatistics ==
    [averageCaloriesDaily |-> 0,
     calorieGoalAchievementPercent |-> 0,
     averageProteinDaily |-> 0,
     averageCarbsDaily |-> 0,
     averageFatsDaily |-> 0,
     averageFiberDaily |-> 0,
     averageSodiumDaily |-> 0,
     averageSugarDaily |-> 0,
     averageFluidsDaily |-> 0,
     processedFoodPercentage |-> 0,
     fullLoggingPercentage |-> 0,
     averageEatingHours |->
         [start |-> Clock("0", "8", "0", "0"), end |-> Clock("2", "0", "0", "0")],
     intermittentFastingHours |-> 12,
     missedMealsAlert |-> 0,
     nutritionScore |-> 50,
     weeklyTrends |->
         [calories |-> <<0, 0, 0, 0, 0, 0, 0>>,
          protein |-> <<0, 0, 0, 0, 0, 0, 0>>,
          carbs |-> <<0, 0, 0, 0, 0, 0, 0>>,
          fats |-> <<0, 0, 0, 0, 0, 0, 0>>],
     insights |-> ArrayOf(<<"Start logging meals to see personalized insights!">>),
     recommendations |-> <<"Begin by logging your meals regularly">>,
     generalStats |->
         [averageCaloriesPerMeal |-> 0,
          averageProteinPerMeal |-> 0,
          mostCommonMealTime |-> Clock("1", "2", "0", "0"),
          averageMealsPerDay |-> Frac(0, 10)]]

\* the object built from a non-empty list of fetched meals.  The fields
\* computed from columns the model's rows do not carry (alcohol and caffeine,
\* food category and name, allergens, health risk notes) and the three
\* healthInsights texts are left out.
computedStatistics(ms, start, end) ==
    LET totalDays == totalDaysOf(start, end)
        totals == [calories |-> total(ms, "calories"),
                   protein |-> total(ms, "protein_g"),
                   carbs |-> total(ms, "carbs_g"),
                   fats |-> total(ms, "fats_g"),
                   fiber |-> total(ms, "fiber_g"),
                   sodium |-> total(ms, "sodium_mg"),
                   sugar |-> total(ms, "sugar_g"),
                   fluids |-> total(ms, "liquids_ml")]
        averageCaloriesDaily == perDay(totals.calories, totalDays)
        averageProteinDaily == perDay(totals.protein, totalDays)
        averageCarbsDaily == perDay(totals.carbs, totalDays)
        averageFatsDaily == perDay(totals.fats, totalDays)
        averageFiberDaily == perDay(totals.fiber, totalDays)
        averageSodiumDaily == perDay(totals.sodium, totalDays)
        averageSugarDaily == perDay(totals.sugar, totalDays)
        averageFluidsDaily == perDay(totals.fluids, totalDays)
        calorieGoalAchievementPercent == goalAchievement(averageCaloriesDaily)
        processedFoodPercentage == processedShare(ms)
        weeklyTrends == calculateWeeklyTrends(ms, start, end)
        nutritionScore ==
            calculateNutritionScore(
                [averageCaloriesDaily |-> averageCaloriesDaily,
                 averageProteinDaily |-> averageProteinDaily,
                 averageFiberDaily |-> averageFiberDaily,
                 processedFoodPercentage |-> processedFoodPercentage,
                 calorieGoalAchievementPercent |-> calorieGoalAchievementPercent])
        insights ==
            generateInsightsAsync(
                [averageCaloriesDaily |-> averageCaloriesDaily,
                 averageProteinDaily |-> averageProteinDaily,
                 averageFiberDaily |-> averageFiberDaily,
                 processedFoodPercentage |-> processedFoodPercentage,
                 nutritionScore |-> nutritionScore,
                 mealCount |-> Len(ms),
                 totalDays |-> totalDays])
        recommendations ==
            generateRecommendations(
                [averageCaloriesDaily |-> averageCaloriesDaily,
                 averageProteinDaily |-> averageProteinDaily,
                 averageFiberDaily |-> averageFiberDaily,
                 processedFoodPercentage |-> processedFoodPercentage,
                 nutritionScore |-> nutritionScore])
        eatingHours == calculateEatingHours(ms)
        intermittentFastingHours == calculateIntermittentFasting(eatingHours)
        averageCaloriesPerMeal ==
            IF Len(ms) > 0 THEN Frac(totals.calories, Scale * Len(ms))
            ELSE Frac(0, 1)
        averageProteinPerMeal ==
            IF Len(ms) > 0 THEN Frac(totals.protein, Scale * Len(ms))
            ELSE Frac(0, 1)
        mostCommonMealTime == getMostCommonMealTime(ms)
        averageMealsPerDay == Frac(Len(ms), totalDays)
    IN  [averageCaloriesDaily |-> MathRound(averageCaloriesDaily),
         calorieGoalAchievementPercent |-> MathRound(calorieGoalAchievementPercent),
         averageProteinDaily |-> MathRound(averageProteinDaily),
         averageCarbsDaily |-> MathRound(averageCarbsDaily),
         averageFatsDaily |-> MathRound(averageFatsDaily),
         averageFiberDaily |-> MathRound(averageFiberDaily),
         averageSodiumDaily |-> MathRound(averageSodiumDaily),
         averageSugarDaily |-> MathRound(averageSugarDaily),
         averageFluidsDaily |-> MathRound(averageFluidsDaily),
         processedFoodPercentage |-> MathRound(processedFoodPercentage),
         fullLoggingPercentage |-> calculateFullLoggingPercentage(ms, totalDays),
         averageEatingHours |-> eatingHours,
         intermittentFastingHours |-> intermittentFastingHours,
         missedMealsAlert |-> calculateMissedMeals(totalDays, Len(ms)),
         nutritionScore |-> nutritionScore,
         weeklyTrends |-> weeklyTrends,
         insights |-> insights,
         recommendations |-> recommendations,
         generalStats |->
             [averageCaloriesPerMeal |-> MathRound(averageCaloriesPerMeal),
              averageProteinPerMeal |-> MathRound(averageProteinPerMeal),
              mostCommonMealTime |-> mostCommonMealTime,
              averageMealsPerDay |->
                  Frac(MathRound(Frac(averageMealsPerDay.n * 10,
                                      averageMealsPerDay.d)), 10)]]

\* no request is running
NoPeriod == "none"

NoResult == [none |-> TRUE]

\* throw new Error("Failed to generate nutrition statistics")
FailedToGenerate == [error |-> "Failed to generate nutrition statistics"]

\* NutritionService.saveMeal, and any other writer of the meal table: a row
\* is added.  A row added after the request's fetch is seen by the next
\* request only, so rows are added up to the fetch.
saveMeal(t, data) ==
    /\ pc \in {"idle", "called"}
    /\ BagCardinality(store) < MaxMeals
    /\ store' = store (+) SetToBag({Meal(t, data)})
    /\ UNCHANGED <<pc, period, endDate, startDate, meals, result>>
    /\ UNCHANGED scoreVars
    /\ UNCHANGED concVars
    /\ UNCHANGED quotaVars
    /\ UNCHANGED mealVars

\* getNutritionStatistics is called: endDate and startDate are set
Call(p, now) ==
    /\ pc = "idle"
    /\ pc' = "called"
    /\ period' = p
    /\ endDate' = now
    /\ startDate' = setDateBack(now, periodDays(p))
    /\ UNCHANGED <<store, meals, result>>
    /\ UNCHANGED scoreVars
    /\ UNCHANGED concVars
    /\ UNCHANGED quotaVars
    /\ UNCHANGED mealVars

\* await prisma.meal.findMany(...)
Fetch ==
    /\ pc = "called"
    /\ pc' = "fetched"
    /\ meals' = findMany(store, startDate, endDate)
    /\ UNCHANGED <<store, period, endDate, startDate, result>>
    /\ UNCHANGED scoreVars
    /\ UNCHANGED concVars
    /\ UNCHANGED quotaVars
    /\ UNCHANGED mealVars

\* Faulty variant of FetchFails: the catch block returns the default object.
FetchFails_ReturnsDefault ==
    /\ pc = "called"
    /\ pc' = "threw"
    /\ result' = getDefaultStatistics
    /\ UNCHANGED <<store, period, endDate, startDate, meals>>
    /\ UNCHANGED scoreVars
    /\ UNCHANGED concVars
    /\ UNCHANGED quotaVars
    /\ UNCHANGED mealVars

\* prisma.meal.findMany rejects (the database cannot be reached): the catch
\* block logs the error and throws
FetchFails ==
    /\ pc = "called"
    /\ pc' = "threw"
    /\ result' = FailedToGenerate
    /\ UNCHANGED <<store, period, endDate, startDate, meals>>
    /\ UNCHANGED scoreVars
    /\ UNCHANGED concVars
    /\ UNCHANGED quotaVars
    /\ UNCHANGED mealVars

\* Faulty variant of Return: the check for an empty list is missing.
Return_NoEmptyCheck ==
    /\ pc = "fetched"
    /\ pc' = "done"
    /\ result' = computedStatistics(meals, startDate, endDate)
    /\ UNCHANGED <<store, period, endDate, startDate, meals>>
    /\ UNCHANGED scoreVars
    /\ UNCHANGED concVars
    /\ UNCHANGED quotaVars
    /\ UNCHANGED mealVars

\* the rest of getNutritionStatistics, to its return
Return ==
    /\ pc = "fetched"
    /\ pc' = "done"
    /\ result' = IF Len(meals) = 0 THEN getDefaultStatistics
                 ELSE computedStatistics(meals, startDate, endDate)
    /\ UNCHANGED <<store, period, endDate, startDate, meals>>
    /\ UNCHANGED scoreVars
    /\ UNCHANGED concVars
    /\ UNCHANGED quotaVars
    /\ UNCHANGED mealVars

\* The query of the getNutritionStatistics call that generateInsights(userId)
\* made resolves.  Its userId is the object of averages, no row has that
\* user_id, so the call returns the default object and the Promise in the
\* insights field is fulfilled.
InnerFetch ==
    /\ pc = "done"
    /\ result.insights = PendingPromise
    /\ result' = [result EXCEPT
                     !.insights = Fulfilled(insightsOf(getDefaultStatistics))]
    /\ UNCHANGED <<store, pc, period, endDate, startDate, meals>>
    /\ UNCHANGED scoreVars
    /\ UNCHANGED concVars
    /\ UNCHANGED quotaVars
    /\ UNCHANGED mealVars

\* That query rejects: the call throws, and the Promise in the insights
\* field is rejected.
InnerFetchFails ==
    /\ pc = "done"
    /\ result.insights = PendingPromise
    /\ result' = [result EXCEPT !.insights = Rejected(FailedToGenerate)]
    /\ UNCHANGED <<store, pc, period, endDate, startDate, meals>>
    /\ UNCHANGED scoreVars
    /\ UNCHANGED concVars
    /\ UNCHANGED quotaVars
    /\ UNCHANGED mealVars

\* the caller has the result or the error; the next request may start
Finish ==
    /\ pc \in {"done", "threw"}
    /\ pc' = "idle"
    /\ period' = NoPeriod
    /\ endDate' = 0
    /\ startDate' = 0
    /\ meals' = <<>>
    /\ result' = NoResult
    /\ UNCHANGED store
    /\ UNCHANGED scoreVars
    /\ UNCHANGED concVars
    /\ UNCHANGED quotaVars
    /\ UNCHANGED mealVars

\* no direct call is made
NoScore == [none |-> TRUE]

Init ==
    /\ store = EmptyBag
    /\ pc = "idle"
    /\ period = NoPeriod
    /\ endDate = 0
    /\ startDate = 0
    /\ meals = <<>>
    /\ result = NoResult
    /\ scoreIn = NoScore
    /\ scoreOut = <<>>
    /\ NoSideBySide
    /\ NoAnalysis
    /\ NoMealCalls

Next ==
    \/ \E t \in MealTimes, data \in MealData : saveMeal(t, data)
    \/ \E p \in PeriodArgs, now \in NowSet : Call(p, now)
    \/ Fetch
    \/ FetchFails
    \/ Return
    \/ InnerFetch
    \/ InnerFetchFails
    \/ Finish

Spec == Init /\ [][Next]_vars

---------------------------------------------------------------------------
(* calculateNutritionScore called on its own *)

\* the quantities one step under k, at k, and one step over k
Near(k) == {Units(k) - 1, Units(k), Units(k) + 1}

GoalInputs ==
    {0} \cup Near(70) \cup Near(80) \cup Near(90)
        \cup Near(110) \cup Near(120) \cup Near(130)

ProteinInputs == {0, Units(119)} \cup Near(50) \cup Near(80) \cup Near(120)

FiberInputs == {0} \cup Near(10) \cup Near(15) \cup Near(25)

ProcessedInputs == {0, Units(100)} \cup Near(10) \cup Near(20) \cup Near(40)

scoreData(goal, protein, fiber, processed) ==
    [averageCaloriesDaily |-> Frac(goal * 20, Scale),
     averageProteinDaily |-> Frac(protein, Scale),
     averageFiberDaily |-> Frac(fiber, Scale),
     processedFoodPercentage |-> Frac(processed, Scale),
     calorieGoalAchievementPercent |-> Frac(goal, Scale)]

ScoreInit ==
    /\ store = EmptyBag
    /\ pc = "idle"
    /\ period = NoPeriod
    /\ endDate = 0
    /\ startDate = 0
    /\ meals = <<>>
    /\ result = NoResult
    /\ \E goal \in GoalInputs, protein \in ProteinInputs,
          fiber \in FiberInputs, processed \in ProcessedInputs :
            scoreIn = scoreData(goal, protein, fiber, processed)
    /\ scoreOut = <<>>
    /\ NoSideBySide
    /\ NoAnalysis
    /\ NoMealCalls

\* the call and its return
CallScore ==
    /\ scoreOut = <<>>
    /\ scoreOut' = <<calculateNutritionScore(scoreIn)>>
    /\ UNCHANGED scoreIn
    /\ UNCHANGED statsVars
    /\ UNCHANGED concVars
    /\ UNCHANGED quotaVars
    /\ UNCHANGED mealVars

ScoreNext == CallScore

SpecScore == ScoreInit /\ [][ScoreNext]_vars

---------------------------------------------------------------------------
(* Requests against a meal table that holds many meals *)

\* the upload time of the copies
BulkTime == At(38, 21, 0)

ManyInit ==
    /\ \E n \in 0..MaxBulk, data \in MealData, k \in 0..MaxBlank :
          store = (IF n = 0 THEN EmptyBag
                   ELSE [m \in {Meal(BulkTime, data)} |-> n])
                  (+) (IF k = 0 THEN EmptyBag
                       ELSE [m \in {Meal(BulkTime, Blank)} |-> k])
    /\ pc = "idle"
    /\ period = NoPeriod
    /\ endDate = 0
    /\ startDate = 0
    /\ meals = <<>>
    /\ result = NoResult
    /\ scoreIn = NoScore
    /\ scoreOut = <<>>
    /\ NoSideBySide
    /\ NoAnalysis
    /\ NoMealCalls

ManyNext ==
    \/ \E p \in PeriodArgs, now \in NowSet : Call(p, now)
    \/ Fetch
    \/ FetchFails
    \/ Return
    \/ InnerFetch
    \/ InnerFetchFails
    \/ Finish

SpecManyMeals == ManyInit /\ [][ManyNext]_vars

---------------------------------------------------------------------------
(* Requests against a meal table that holds a row with NaN calories *)

MalformedInit ==
    /\ \E t \in MealTimes :
          \/ store = SetToBag({Meal(t, Malformed)})
          \/ \E t2 \in MealTimes, data \in MealData :
                store = SetToBag({Meal(t, Malformed)})
                        (+) SetToBag({Meal(t2, data)})
    /\ pc = "idle"
    /\ period = NoPeriod
    /\ endDate = 0
    /\ startDate = 0
    /\ meals = <<>>
    /\ result = NoResult
    /\ scoreIn = NoScore
    /\ scoreOut = <<>>
    /\ NoSideBySide
    /\ NoAnalysis
    /\ NoMealCalls

SpecMalformed == MalformedInit /\ [][ManyNext]_vars

---------------------------------------------------------------------------
(* Requests of several users side by side.  getNutritionStatistics is a    *)
(* static method whose variables are all local constants; each request     *)
(* holds its own, and the requests meet in the meal table only.            *)

SidePeriods == {"week", "month"}

SideTimes == {At(15, 7, 45), At(38, 21, 0)}

SideData == {Snack}

\* NutritionService.saveMeal for user u
saveMealFor(u, t, data) ==
    /\ BagCardinality(tables[u]) < MaxUserMeals
    /\ tables' = [tables EXCEPT ![u] = @ (+) SetToBag({Meal(t, data)})]
    /\ UNCHANGED reqs
    /\ UNCHANGED <<statsVars, scoreVars, quotaVars>>
    /\ UNCHANGED mealVars

\* getNutritionStatistics(u, p) is called
CallR(r, u, p, now) ==
    /\ reqs[r].pc = "idle"
    /\ reqs' = [reqs EXCEPT ![r] =
                   [@ EXCEPT !.pc = "called", !.user = u, !.period = p,
                             !.endDate = now,
                             !.startDate = setDateBack(now, periodDays(p))]]
    /\ UNCHANGED tables
    /\ UNCHANGED <<statsVars, scoreVars, quotaVars>>
    /\ UNCHANGED mealVars

\* await prisma.meal.findMany({where: {user_id: userId, ...}})
FetchR(r) ==
    /\ reqs[r].pc = "called"
    /\ reqs' = [reqs EXCEPT ![r] =
                   [@ EXCEPT !.pc = "fetched",
                             !.meals = findMany(tables[reqs[r].user],
                                                reqs[r].startDate,
                                                reqs[r].endDate)]]
    /\ UNCHANGED tables
    /\ UNCHANGED <<statsVars, scoreVars, quotaVars>>
    /\ UNCHANGED mealVars

\* the query rejects
FetchFailsR(r) ==
    /\ reqs[r].pc = "called"
    /\ reqs' = [reqs EXCEPT ![r] =
                   [@ EXCEPT !.pc = "threw", !.result = FailedToGenerate]]
    /\ UNCHANGED tables
    /\ UNCHANGED <<statsVars, scoreVars, quotaVars>>
    /\ UNCHANGED mealVars

\* Faulty variant of ownMeals: the fetched list is kept in a variable that
\* all requests share, so a request computes from the list fetched last.
ownMeals_Shared(r) ==
    IF \E o \in RequestIds \ {r} : reqs[o].pc = "fetched"
    THEN reqs[CHOOSE o \in RequestIds \ {r} : reqs[o].pc = "fetched"].meals
    ELSE reqs[r].meals

\* the meals a request computes from
ownMeals(r) == reqs[r].meals

\* the rest of getNutritionStatistics, to its return
ReturnR(r) ==
    /\ reqs[r].pc = "fetched"
    /\ reqs' = [reqs EXCEPT ![r] =
                   [@ EXCEPT !.pc = "done",
                             !.result =
                                 IF Len(ownMeals(r)) = 0
                                 THEN getDefaultStatistics
                                 ELSE computedStatistics(ownMeals(r),
                                                         reqs[r].startDate,
                                                         reqs[r].endDate)]]
    /\ UNCHANGED tables
    /\ UNCHANGED <<statsVars, scoreVars, quotaVars>>
    /\ UNCHANGED mealVars

\* the query of the call that generateInsights(userId) made resolves, with
\* no row
InnerFetchR(r) ==
    /\ reqs[r].pc = "done"
    /\ reqs[r].result.insights = PendingPromise
    /\ reqs' = [reqs EXCEPT ![r].result.insights =
                    Fulfilled(insightsOf(getDefaultStatistics))]
    /\ UNCHANGED tables
    /\ UNCHANGED <<statsVars, scoreVars, quotaVars>>
    /\ UNCHANGED mealVars

\* that query rejects
InnerFetchFailsR(r) ==
    /\ reqs[r].pc = "done"
    /\ reqs[r].result.insights = PendingPromise
    /\ reqs' = [reqs EXCEPT ![r].result.insights = Rejected(FailedToGenerate)]
    /\ UNCHANGED tables
    /\ UNCHANGED <<statsVars, scoreVars, quotaVars>>
    /\ UNCHANGED mealVars

\* the caller has the result or the error
FinishR(r) ==
    /\ reqs[r].pc \in {"done", "threw"}
    /\ reqs' = [reqs EXCEPT ![r] = IdleRequest]
    /\ UNCHANGED tables
    /\ UNCHANGED <<statsVars, scoreVars, quotaVars>>
    /\ UNCHANGED mealVars

SideInit ==
    /\ store = EmptyBag
    /\ pc = "idle"
    /\ period = NoPeriod
    /\ endDate = 0
    /\ startDate = 0
    /\ meals = <<>>
    /\ result = NoResult
    /\ scoreIn = NoScore
    /\ scoreOut = <<>>
    /\ NoSideBySide
    /\ NoAnalysis
    /\ NoMealCalls

SideNext ==
    \/ \E u \in Users, t \in SideTimes, data \in SideData : saveMealFor(u, t, data)
    \/ \E r \in RequestIds, u \in Users, p \in SidePeriods, now \in NowSet :
          CallR(r, u, p, now)
    \/ \E r \in RequestIds : FetchR(r)
    \/ \E r \in RequestIds : FetchFailsR(r)
    \/ \E r \in RequestIds : ReturnR(r)
    \/ \E r \in RequestIds : InnerFetchR(r)
    \/ \E r \in RequestIds : InnerFetchFailsR(r)
    \/ \E r \in RequestIds : FinishR(r)

SpecSideBySide == SideInit /\ [][SideNext]_vars

---------------------------------------------------------------------------
(* NutritionService.analyzeMeal: the analysis quota of one user.  Each     *)
(* await of the method is a step; the calls of the user run side by side.  *)

\* hoursSinceReset >= 24
ResetHours == 24

\* const limits = {FREE: 10, BASIC: 50, PREMIUM: 200}
limits == [FREE |-> 10, BASIC |-> 50, PREMIUM |-> 200]

\* limits[user.subscription_type] || limits.FREE
userLimitOf(subscription_type) ==
    IF subscription_type \in DOMAIN limits THEN limits[subscription_type]
    ELSE limits.FREE

SubscriptionTypes == {"FREE", "BASIC", "PREMIUM", "TRIAL"}

\* findUnique found no row for user_id
NoRow == [none |-> TRUE]

\* the instants at which something happens: the start, and for each day the
\* last minute before it is over and the instant it is over
ClockTimes ==
    {0} \cup {k * MinutesPerDay - 1 : k \in 1..MaxDays}
        \cup {k * MinutesPerDay : k \in 1..MaxDays}

\* (now.getTime() - resetTime.getTime()) / (1000 * 60 * 60)
hoursSinceReset(now, resetTime) == Frac(now - resetTime, MinutesPerHour)

\* the user row the call holds says the limits are to be reset now
resetIsDue(c) ==
    Geq(hoursSinceReset(clock, calls[c].aiRequestsResetAt), ResetHours)

\* the call is at the limit check: the row was read and no reset is due, or
\* the reset has been written
atLimitCheck(c) ==
    \/ calls[c].pc = "found" /\ ~resetIsDue(c)
    \/ calls[c].pc = "reset"

\* time passes
Tick ==
    /\ \E t \in ClockTimes :
          /\ t > clock
          /\ \A o \in ClockTimes : o > clock => t <= o
          /\ clock' = t
    /\ UNCHANGED <<userRow, calls, admitted>>
    /\ UNCHANGED <<statsVars, scoreVars, concVars>>
    /\ UNCHANGED mealVars

\* await prisma.user.findUnique(...): the call holds a copy of the row; with
\* no row the quota is skipped and the analysis starts
FindUser(c) ==
    /\ calls[c].pc = "idle"
    /\ IF userRow = NoRow
       THEN /\ calls' = [calls EXCEPT ![c] = [@ EXCEPT !.pc = "analyzing"]]
            /\ admitted' = admitted + 1
       ELSE /\ calls' = [calls EXCEPT ![c] =
                            [pc |-> "found",
                             aiRequestsCount |-> userRow.aiRequestsCount,
                             aiRequestsResetAt |-> userRow.aiRequestsResetAt,
                             out |-> NoOutcome]]
            /\ admitted' = admitted
    /\ UNCHANGED <<userRow, clock>>
    /\ UNCHANGED <<statsVars, scoreVars, concVars>>
    /\ UNCHANGED mealVars

\* hoursSinceReset >= 24: await prisma.user.update({aiRequestsCount: 0,
\* aiRequestsResetAt: now}); user.aiRequestsCount = 0
ResetLimits(c) ==
    /\ calls[c].pc = "found"
    /\ resetIsDue(c)
    /\ userRow' = [userRow EXCEPT !.aiRequestsCount = 0,
                                  !.aiRequestsResetAt = clock]
    /\ calls' = [calls EXCEPT ![c] =
                    [@ EXCEPT !.pc = "reset", !.aiRequestsCount = 0]]
    /\ admitted' = 0
    /\ UNCHANGED clock
    /\ UNCHANGED <<statsVars, scoreVars, concVars>>
    /\ UNCHANGED mealVars

\* new Error(`Daily AI analysis limit reached (${userLimit}). Upgrade your
\* subscription for more analyses.`)
LimitReached(userLimit) ==
    [thrown |-> "Daily AI analysis limit reached", userLimit |-> userLimit]

\* the success object of analyzeMeal: {success: true, data: analysis}
AnalysisResult == [success |-> TRUE, data |-> "analysis"]

\* the error OpenAIService.analyzeMealImage threw, rethrown by the catch
AnalysisError == [thrown |-> "analysis error"]

\* the rejection that also writes the count raised by one
Reject_Counts(c) ==
    /\ atLimitCheck(c)
    /\ calls[c].aiRequestsCount >= userLimitOf(userRow.subscription_type)
    /\ calls' = [calls EXCEPT ![c] =
                    [IdleCall EXCEPT
                        !.pc = "rejected",
                        !.out = LimitReached(
                                    userLimitOf(userRow.subscription_type))]]
    /\ userRow' = [userRow EXCEPT
                      !.aiRequestsCount = calls[c].aiRequestsCount + 1]
    /\ UNCHANGED <<clock, admitted>>
    /\ UNCHANGED <<statsVars, scoreVars, concVars>>
    /\ UNCHANGED mealVars

\* user.aiRequestsCount >= userLimit: throw new Error("Daily AI analysis
\* limit reached ..."), rethrown by the catch
Reject(c) ==
    /\ atLimitCheck(c)
    /\ calls[c].aiRequestsCount >= userLimitOf(userRow.subscription_type)
    /\ calls' = [calls EXCEPT ![c] =
                    [IdleCall EXCEPT
                        !.pc = "rejected",
                        !.out = LimitReached(
                                    userLimitOf(userRow.subscription_type))]]
    /\ UNCHANGED <<userRow, clock, admitted>>
    /\ UNCHANGED <<statsVars, scoreVars, concVars>>
    /\ UNCHANGED mealVars

\* await prisma.user.update({aiRequestsCount: user.aiRequestsCount + 1});
\* the analysis is started next
Increment(c) ==
    /\ atLimitCheck(c)
    /\ calls[c].aiRequestsCount < userLimitOf(userRow.subscription_type)
    /\ userRow' = [userRow EXCEPT
                      !.aiRequestsCount = calls[c].aiRequestsCount + 1]
    /\ calls' = [calls EXCEPT ![c] = [@ EXCEPT !.pc = "analyzing"]]
    /\ admitted' = admitted + 1
    /\ UNCHANGED clock
    /\ UNCHANGED <<statsVars, scoreVars, concVars>>
    /\ UNCHANGED mealVars

\* await OpenAIService.analyzeMealImage(...) returned: the call returns
\* {success: true, data: analysis}
AnalysisDone(c) ==
    /\ calls[c].pc = "analyzing"
    /\ calls' = [calls EXCEPT ![c] =
                    [IdleCall EXCEPT !.pc = "over", !.out = AnalysisResult]]
    /\ UNCHANGED <<userRow, clock, admitted>>
    /\ UNCHANGED <<statsVars, scoreVars, concVars>>
    /\ UNCHANGED mealVars

\* await OpenAIService.analyzeMealImage(...) threw: the catch rethrows the
\* error; nothing is written
AnalysisFails(c) ==
    /\ calls[c].pc = "analyzing"
    /\ calls' = [calls EXCEPT ![c] =
                    [IdleCall EXCEPT !.pc = "over", !.out = AnalysisError]]
    /\ UNCHANGED <<userRow, clock, admitted>>
    /\ UNCHANGED <<statsVars, scoreVars, concVars>>
    /\ UNCHANGED mealVars

\* the user row when the calls start: no row, or a row whose count is 0 or
\* one under the limit, all counted calls having been admitted
QuotaInit ==
    /\ store = EmptyBag
    /\ pc = "idle"
    /\ period = NoPeriod
    /\ endDate = 0
    /\ startDate = 0
    /\ meals = <<>>
    /\ result = NoResult
    /\ scoreIn = NoScore
    /\ scoreOut = <<>>
    /\ NoSideBySide
    /\ NoMealCalls
    /\ \/ userRow = NoRow /\ admitted = 0
       \/ \E sub \in SubscriptionTypes :
            \E n \in {0, userLimitOf(sub) - 1} :
               /\ userRow = [aiRequestsCount |-> n, aiRequestsResetAt |-> 0,
                             subscription_type |-> sub]
               /\ admitted = n
    /\ calls = [c \in CallIds |-> IdleCall]
    /\ clock = 0

QuotaNext ==
    \/ Tick
    \/ \E c \in CallIds : FindUser(c)
    \/ \E c \in CallIds : ResetLimits(c)
    \/ \E c \in CallIds : Reject(c)
    \/ \E c \in CallIds : Increment(c)
    \/ \E c \in CallIds : AnalysisDone(c)
    \/ \E c \in CallIds : AnalysisFails(c)

SpecQuota == QuotaInit /\ [][QuotaNext]_vars

---------------------------------------------------------------------------
(* NutritionService: the methods on one meal.  updateMeal,                 *)
(* saveMealFeedback, toggleMealFavorite and duplicateMeal each find the    *)
(* meal and then write; each await is a step, and the calls run side by    *)
(* side.  A row carries the columns these methods read or write;           *)
(* meal_name stands for the nutrient columns copied and updated with it.   *)

\* the additives_json column: null, or a JSON object, which is a function
\* from its keys to their values
JsonNull == [json |-> "null"]

JsonObject(object) == [json |-> "object", object |-> object]

EmptyObject == [k \in {} |-> 0]

\* (meal.additives_json as any) || {}
OrEmptyObject(json) == IF json = JsonNull THEN EmptyObject ELSE json.object

\* {...base, ...over}: the keys of both, those of over winning
Spread(base, over) ==
    [k \in DOMAIN base \cup DOMAIN over |->
        IF k \in DOMAIN over THEN over[k] ELSE base[k]]

\* new Date().toISOString()
toISOString(t) == [iso |-> t]

\* the digit a character stands for
DigitOf(ch) == CHOOSE d \in 0..9 : DigitChars[d + 1] = ch

IsDigit(ch) == \E d \in 0..9 : DigitChars[d + 1] = ch

\* the longest prefix of s made of digits
RECURSIVE LeadingDigits(_)
LeadingDigits(s) ==
    IF s = <<>> \/ ~IsDigit(Head(s)) THEN <<>>
    ELSE <<Head(s)>> \o LeadingDigits(Tail(s))

\* the number a sequence of digits writes
RECURSIVE DigitsValue(_)
DigitsValue(ds) ==
    IF ds = <<>> THEN 0
    ELSE 10 * DigitsValue(SubSeq(ds, 1, Len(ds) - 1)) + DigitOf(ds[Len(ds)])

\* parseInt(mealId): the number its leading digits write, whatever follows
\* them; NaN when it does not start with a digit
parseInt(s) ==
    IF LeadingDigits(s) = <<>> THEN NaN ELSE DigitsValue(LeadingDigits(s))

\* the mealId arguments: a meal of the table at the start, the other one,
\* the id the first duplicate gets, an id no meal ever has, and an id
\* followed by a letter
MealIdArgs == {<<"1">>, <<"2">>, <<"3">>, <<"7">>, <<"1", "x">>}

\* the feedback arguments
FeedbackArgs ==
    { [tasteRating |-> 5, satietyRating |-> 4, energyRating |-> 3,
       heavinessRating |-> 2],
      [tasteRating |-> 1, satietyRating |-> 2, energyRating |-> 2,
       heavinessRating |-> 5] }

\* the null of the meal_name column
NoName == "NULL"

\* what OpenAIService.updateMealAnalysis returns
UpdatedAnalysis == [name |-> "updated meal"]

\* the error OpenAIService.updateMealAnalysis threw
UpdateError == [thrown |-> "update analysis error"]

\* new Error("Meal not found"), new Error("Original meal not found")
MealNotFound == [thrown |-> "Meal not found"]

OriginalMealNotFound == [thrown |-> "Original meal not found"]

MealMethods ==
    {"updateMeal", "saveMealFeedback", "toggleMealFavorite", "duplicateMeal"}

\* private static transformMealData(meal)
transformMealData(meal) ==
    LET additives == OrEmptyObject(meal.additives_json)
        feedback == IF "feedback" \in DOMAIN additives
                    THEN additives["feedback"] ELSE EmptyObject
        rating(key) == IF key \in DOMAIN feedback THEN feedback[key] ELSE 0
    IN  [meal_id |-> meal.meal_id,
         user_id |-> meal.user_id,
         meal_name |-> meal.meal_name,
         id |-> toString(meal.meal_id),
         name |-> IF meal.meal_name = NoName THEN "Unknown Meal"
                  ELSE meal.meal_name,
         userId |-> meal.user_id,
         isFavorite |-> IF "isFavorite" \in DOMAIN additives
                        THEN additives["isFavorite"] ELSE FALSE,
         tasteRating |-> rating("tasteRating"),
         satietyRating |-> rating("satietyRating"),
         energyRating |-> rating("energyRating"),
         heavinessRating |-> rating("heavinessRating"),
         additives_json |-> meal.additives_json]

\* a method is called: nothing is read yet
CallMealMethod(o) ==
    /\ ops[o].pc = "idle"
    /\ \E method \in MealMethods, u \in Users, mealId \in MealIdArgs,
          feedback \in FeedbackArgs :
            ops' = [ops EXCEPT ![o] =
                       [IdleOp EXCEPT
                           !.pc = "called", !.method = method,
                           !.user_id = u, !.mealId = mealId,
                           !.feedback = IF method = "saveMealFeedback"
                                        THEN feedback ELSE NoOutcome]]
    /\ UNCHANGED mealRows
    /\ UNCHANGED <<statsVars, scoreVars, concVars, quotaVars>>

\* Faulty variant of findFirst: the where clause has no user_id.
findFirst_AnyOwner(meal_id, user_id) ==
    IF meal_id \in MealIds /\ mealRows[meal_id] # NoMeal
    THEN mealRows[meal_id]
    ELSE NoMeal

\* prisma.meal.findFirst({where: {meal_id, user_id}})
findFirst(meal_id, user_id) ==
    IF /\ meal_id \in MealIds
       /\ mealRows[meal_id] # NoMeal
       /\ mealRows[meal_id].user_id = user_id
    THEN mealRows[meal_id]
    ELSE NoMeal

\* await prisma.meal.findFirst(...) found the meal: the call holds a copy
FindMeal(o) ==
    /\ ops[o].pc = "called"
    /\ findFirst(parseInt(ops[o].mealId), ops[o].user_id) # NoMeal
    /\ ops' = [ops EXCEPT ![o] =
                  [@ EXCEPT !.pc = "found",
                            !.meal = findFirst(parseInt(ops[o].mealId),
                                               ops[o].user_id)]]
    /\ UNCHANGED mealRows
    /\ UNCHANGED <<statsVars, scoreVars, concVars, quotaVars>>

\* if (!meal) throw new Error("Meal not found"), "Original meal not found"
\* in duplicateMeal; the catch rethrows it
MealNotFoundThrown(o) ==
    /\ ops[o].pc = "called"
    /\ findFirst(parseInt(ops[o].mealId), ops[o].user_id) = NoMeal
    /\ ops' = [ops EXCEPT ![o] =
                  [@ EXCEPT !.pc = "threw",
                            !.out = IF ops[o].method = "duplicateMeal"
                                    THEN OriginalMealNotFound
                                    ELSE MealNotFound]]
    /\ UNCHANGED mealRows
    /\ UNCHANGED <<statsVars, scoreVars, concVars, quotaVars>>

\* the additives_json saveMealFeedback writes
feedbackAdditives(meal, feedback, now) ==
    Spread(OrEmptyObject(meal.additives_json),
           [feedback |->
               [tasteRating |-> feedback.tasteRating,
                satietyRating |-> feedback.satietyRating,
                energyRating |-> feedback.energyRating,
                heavinessRating |-> feedback.heavinessRating,
                updatedAt |-> toISOString(now)]])

\* saveMealFeedback: await prisma.meal.update({where: {meal_id}, data:
\* {additives_json: {...}}}) and the return
WriteFeedback(o) ==
    /\ ops[o].pc = "found"
    /\ ops[o].method = "saveMealFeedback"
    /\ LET id == parseInt(ops[o].mealId)
           updatedMeal ==
               [mealRows[id] EXCEPT
                   !.additives_json =
                       JsonObject(feedbackAdditives(ops[o].meal,
                                                    ops[o].feedback, clock))]
       IN  /\ mealRows' = [mealRows EXCEPT ![id] = updatedMeal]
           /\ ops' = [ops EXCEPT ![o] =
                         [@ EXCEPT !.pc = "done",
                                   !.out = [success |-> TRUE,
                                            meal |-> transformMealData(
                                                         updatedMeal)]]]
    /\ UNCHANGED <<statsVars, scoreVars, concVars, quotaVars>>

\* ((meal.additives_json as any)?.isFavorite as boolean) || false
currentFavorite(meal) ==
    IF "isFavorite" \in DOMAIN OrEmptyObject(meal.additives_json)
    THEN OrEmptyObject(meal.additives_json)["isFavorite"]
    ELSE FALSE

\* Faulty variant of favoriteAdditives: the object is built from the flag
\* alone.
favoriteAdditives_NoSpread(meal, now) ==
    [isFavorite |-> ~currentFavorite(meal),
     favoriteUpdatedAt |-> toISOString(now)]

\* the additives_json toggleMealFavorite writes
favoriteAdditives(meal, now) ==
    Spread(OrEmptyObject(meal.additives_json),
           [isFavorite |-> ~currentFavorite(meal),
            favoriteUpdatedAt |-> toISOString(now)])

\* toggleMealFavorite: await prisma.meal.update({where: {meal_id}, data:
\* {additives_json: {...}}}) and the return
WriteFavorite(o) ==
    /\ ops[o].pc = "found"
    /\ ops[o].method = "toggleMealFavorite"
    /\ LET id == parseInt(ops[o].mealId)
           updatedMeal ==
               [mealRows[id] EXCEPT
                   !.additives_json =
                       JsonObject(favoriteAdditives(ops[o].meal, clock))]
       IN  /\ mealRows' = [mealRows EXCEPT ![id] = updatedMeal]
           /\ ops' = [ops EXCEPT ![o] =
                         [@ EXCEPT !.pc = "done",
                                   !.out = [success |-> TRUE,
                                            isFavorite |->
                                                ~currentFavorite(ops[o].meal),
                                            meal |-> transformMealData(
                                                         updatedMeal)]]]
    /\ UNCHANGED <<statsVars, scoreVars, concVars, quotaVars>>

\* updateMeal: await OpenAIService.updateMealAnalysis(...) returned
UpdateAnalysis(o) ==
    /\ ops[o].pc = "found"
    /\ ops[o].method = "updateMeal"
    /\ ops' = [ops EXCEPT ![o] =
                  [@ EXCEPT !.pc = "analysed", !.analysis = UpdatedAnalysis]]
    /\ UNCHANGED mealRows
    /\ UNCHANGED <<statsVars, scoreVars, concVars, quotaVars>>

\* updateMeal: await OpenAIService.updateMealAnalysis(...) threw; the catch
\* rethrows
UpdateAnalysisFails(o) ==
    /\ ops[o].pc = "found"
    /\ ops[o].method = "updateMeal"
    /\ ops' = [ops EXCEPT ![o] = [@ EXCEPT !.pc = "threw", !.out = UpdateError]]
    /\ UNCHANGED mealRows
    /\ UNCHANGED <<statsVars, scoreVars, concVars, quotaVars>>

\* updateMeal: await prisma.meal.update({where: {meal_id}, data: {meal_name:
\* updatedAnalysis.name, ...}}) and the return
WriteUpdate(o) ==
    /\ ops[o].pc = "analysed"
    /\ LET id == parseInt(ops[o].mealId)
           updatedMeal ==
               [mealRows[id] EXCEPT !.meal_name = ops[o].analysis.name]
       IN  /\ mealRows' = [mealRows EXCEPT ![id] = updatedMeal]
           /\ ops' = [ops EXCEPT ![o] =
                         [@ EXCEPT !.pc = "done",
                                   !.out = transformMealData(updatedMeal)]]
    /\ UNCHANGED <<statsVars, scoreVars, concVars, quotaVars>>

\* the meal_id the next created row gets
nextMealId == CHOOSE id \in MealIds :
                  /\ mealRows[id] = NoMeal
                  /\ \A other \in MealIds : mealRows[other] = NoMeal => id <= other

\* duplicateMeal: await prisma.meal.create({data: {user_id, ...originalMeal
\* columns, additives_json: {...}}}) and the return
CreateDuplicate(o) ==
    /\ ops[o].pc = "found"
    /\ ops[o].method = "duplicateMeal"
    /\ \E id \in MealIds : mealRows[id] = NoMeal
    /\ LET duplicatedMeal ==
               [meal_id |-> nextMealId,
                user_id |-> ops[o].user_id,
                meal_name |-> ops[o].meal.meal_name,
                additives_json |->
                    JsonObject(
                        Spread(OrEmptyObject(ops[o].meal.additives_json),
                               [duplicatedFrom |-> ops[o].meal.meal_id,
                                duplicatedAt |-> toISOString(clock)]))]
       IN  /\ mealRows' = [mealRows EXCEPT ![nextMealId] = duplicatedMeal]
           /\ ops' = [ops EXCEPT ![o] =
                         [@ EXCEPT !.pc = "done",
                                   !.out = transformMealData(duplicatedMeal)]]
    /\ UNCHANGED <<statsVars, scoreVars, concVars, quotaVars>>

\* the caller has the return value or the error: the call is over
MealMethodOver(o) ==
    /\ ops[o].pc \in {"done", "threw"}
    /\ ops' = [ops EXCEPT ![o] = [IdleOp EXCEPT !.pc = "over"]]
    /\ UNCHANGED mealRows
    /\ UNCHANGED <<statsVars, scoreVars, concVars, quotaVars>>

\* time passes between two steps
MealTick ==
    /\ clock < MaxMealClock
    /\ clock' = clock + 1
    /\ UNCHANGED <<userRow, calls, admitted>>
    /\ UNCHANGED mealVars
    /\ UNCHANGED <<statsVars, scoreVars, concVars>>

\* additives_json of a meal when the calls start: null as saveMeal leaves
\* it, or an object with a key none of the methods writes
StartAdditives == {JsonNull, JsonObject([note |-> "E330"])}

MealsInit ==
    /\ store = EmptyBag
    /\ pc = "idle"
    /\ period = NoPeriod
    /\ endDate = 0
    /\ startDate = 0
    /\ meals = <<>>
    /\ result = NoResult
    /\ scoreIn = NoScore
    /\ scoreOut = <<>>
    /\ NoSideBySide
    /\ NoAnalysis
    /\ ops = [o \in OpIds |-> IdleOp]
    /\ \E a1 \in StartAdditives, a2 \in StartAdditives :
          mealRows = [id \in MealIds |->
                         CASE id = 1 -> [meal_id |-> 1, user_id |-> "u1",
                                         meal_name |-> "salad",
                                         additives_json |-> a1]
                           [] id = 2 -> [meal_id |-> 2, user_id |-> "u2",
                                         meal_name |-> NoName,
                                         additives_json |-> a2]
                           [] OTHER -> NoMeal]

MealsNext ==
    \/ MealTick
    \/ \E o \in OpIds : CallMealMethod(o)
    \/ \E o \in OpIds : FindMeal(o)
    \/ \E o \in OpIds : MealNotFoundThrown(o)
    \/ \E o \in OpIds : WriteFeedback(o)
    \/ \E o \in OpIds : WriteFavorite(o)
    \/ \E o \in OpIds : UpdateAnalysis(o)
    \/ \E o \in OpIds : UpdateAnalysisFails(o)
    \/ \E o \in OpIds : WriteUpdate(o)
    \/ \E o \in OpIds : CreateDuplicate(o)
    \/ \E o \in OpIds : MealMethodOver(o)

SpecMeals == MealsInit /\ [][MealsNext]_vars

---------------------------------------------------------------------------
(* Properties *)

SevenZeros == [i \in 1..7 |-> 0]

\* C1: whatever the period, a request whose fetch returned no meal returns
\* the fixed default object: every daily average 0, goal achievement 0,
\* processed food 0, score 50, fasting 12 hours, eating hours 08:00-20:00,
\* most common meal time 12:00, and four weekly trends of seven zeros.
C1_EmptyFetchReturnsDefault ==
    (pc = "done" /\ Len(meals) = 0) =>
        /\ result.averageCaloriesDaily = 0
        /\ result.averageProteinDaily = 0
        /\ result.averageCarbsDaily = 0
        /\ result.averageFatsDaily = 0
        /\ result.averageFiberDaily = 0
        /\ result.averageSodiumDaily = 0
        /\ result.averageSugarDaily = 0
        /\ result.averageFluidsDaily = 0
        /\ result.calorieGoalAchievementPercent = 0
        /\ result.processedFoodPercentage = 0
        /\ result.nutritionScore = 50
        /\ result.intermittentFastingHours = 12
        /\ result.averageEatingHours.start = <<"0", "8", ":", "0", "0">>
        /\ result.averageEatingHours.end = <<"2", "0", ":", "0", "0">>
        /\ result.generalStats.mostCommonMealTime = <<"1", "2", ":", "0", "0">>
        /\ result.weeklyTrends.calories = SevenZeros
        /\ result.weeklyTrends.protein = SevenZeros
        /\ result.weeklyTrends.carbs = SevenZeros
        /\ result.weeklyTrends.fats = SevenZeros

\* C1 happens: a month request returned although the table holds meals,
\* none of them inside the period
C1_Witness ==
    /\ pc = "done"
    /\ period = "month"
    /\ Len(meals) = 0
    /\ store # EmptyBag
    /\ result.nutritionScore = 50

\* C2: the score of every returned result, default or computed, is an
\* integer from 1 to 100.
C2_ScoreWithinBounds ==
    pc = "done" => result.nutritionScore \in 1..100

\* C2 happens: a computed result at the extreme of no protein, no calories
\* and only processed food
C2_Witness ==
    /\ pc = "done"
    /\ Len(meals) > 0
    /\ result.averageProteinDaily = 0
    /\ result.calorieGoalAchievementPercent = 0
    /\ result.processedFoodPercentage = 100
    /\ result.nutritionScore = 35

---------------------------------------------------------------------------
(* The additive model of the score, band by band *)

Between(x, lo, hi) == lo * x.d <= x.n /\ x.n <= hi * x.d

Below(x, k) == x.n < k * x.d

Above(x, k) == x.n > k * x.d

RefGoalPoints(g) ==
    CASE Between(g, 90, 110) -> 20
      [] (Between(g, 80, 120) /\ (Below(g, 90) \/ Above(g, 110))) -> 15
      [] (Between(g, 70, 130) /\ (Below(g, 80) \/ Above(g, 120))) -> 10
      [] OTHER -> 0

RefProteinPoints(x) ==
    CASE ~Below(x, 120) -> 15
      [] (~Below(x, 80) /\ Below(x, 120)) -> 10
      [] (~Below(x, 50) /\ Below(x, 80)) -> 5
      [] OTHER -> 0

RefFiberPoints(x) ==
    CASE ~Below(x, 25) -> 10
      [] (~Below(x, 15) /\ Below(x, 25)) -> 7
      [] (~Below(x, 10) /\ Below(x, 15)) -> 5
      [] OTHER -> 0

RefProcessedPoints(x) ==
    CASE ~Above(x, 10) -> 5
      [] (Above(x, 10) /\ ~Above(x, 20)) -> 0
      [] (Above(x, 20) /\ ~Above(x, 40)) -> -5
      [] OTHER -> -15

RefClamp(k) == IF k < 1 THEN 1 ELSE IF k > 100 THEN 100 ELSE k

RefScore(goal, protein, fiber, processed) ==
    RefClamp(50 + RefGoalPoints(goal) + RefProteinPoints(protein)
                + RefFiberPoints(fiber) + RefProcessedPoints(processed))

\* C3: calculateNutritionScore returns the additive model for every input:
\* base 50, the goal, protein, fiber and processed-food bands with their
\* inclusive ends, the sum clamped to 1..100.
C3_ScoreIsAdditiveModel ==
    scoreOut # <<>> =>
        scoreOut[1] = RefScore(scoreIn.calorieGoalAchievementPercent,
                               scoreIn.averageProteinDaily,
                               scoreIn.averageFiberDaily,
                               scoreIn.processedFoodPercentage)

\* C3 happens: a call with every input on an inclusive end of a band
C3_Witness ==
    /\ scoreOut = <<100>>
    /\ scoreIn.calorieGoalAchievementPercent = Frac(Units(110), Scale)
    /\ scoreIn.averageProteinDaily = Frac(Units(120), Scale)
    /\ scoreIn.averageFiberDaily = Frac(Units(25), Scale)
    /\ scoreIn.processedFoodPercentage = Frac(Units(10), Scale)

\* the request's totalDays, averages and percentages before rounding
ReqTotalDays == totalDaysOf(startDate, endDate)

ReqColumnSum(col) ==
    Sum([i \in 1..Len(meals) |->
            IF meals[i][col] = Null THEN 0 ELSE meals[i][col]])

ReqAverage(col) == Frac(ReqColumnSum(col), Scale * ReqTotalDays)

ReqGoalExact ==
    LET pct == Frac(100 * ReqColumnSum("calories"), 2000 * Scale * ReqTotalDays)
    IN  IF Above(pct, 100) THEN Frac(100, 1) ELSE pct

ReqProcessedExact ==
    Frac(100 * Cardinality({i \in 1..Len(meals) :
                 meals[i].processing_level \in {"PROCESSED", "HIGHLY_PROCESSED"}}),
         Len(meals))

\* C4 as stated: the score of a computed result is made of the bands of the
\* rounded calorieGoalAchievementPercent and processedFoodPercentage that the
\* same result reports.
C4_ScoreUsesReportedPercentages ==
    (pc = "done" /\ Len(meals) > 0) =>
        result.nutritionScore =
            RefScore(Frac(result.calorieGoalAchievementPercent, 1),
                     ReqAverage("protein_g"), ReqAverage("fiber_g"),
                     Frac(result.processedFoodPercentage, 1))

\* C4 amended: the score of a computed result is made of the bands of the
\* goal achievement min(100, 100 * average calories / 2000) and of the
\* processed-food share 100 * processed / count before they are rounded;
\* the result reports the two percentages rounded to the nearest integer.
C4_ScoreUsesExactPercentages ==
    (pc = "done" /\ Len(meals) > 0) =>
        /\ result.nutritionScore =
               RefScore(ReqGoalExact, ReqAverage("protein_g"),
                        ReqAverage("fiber_g"), ReqProcessedExact)
        /\ result.calorieGoalAchievementPercent = MathRound(ReqGoalExact)
        /\ result.processedFoodPercentage = MathRound(ReqProcessedExact)

\* C4 happens: a result reports 10 percent processed food for a share above
\* 10 (3 meals of 29) and its score holds no +5 for it
C4_Witness ==
    /\ pc = "done"
    /\ Len(meals) = 29
    /\ result.processedFoodPercentage = 10
    /\ Above(ReqProcessedExact, 10)
    /\ result.nutritionScore =
           50 + RefGoalPoints(ReqGoalExact)
              + RefProteinPoints(ReqAverage("protein_g"))
              + RefFiberPoints(ReqAverage("fiber_g"))

\* C5: with the other inputs fixed the score never falls when the average
\* protein rises, and from 119 to 120 the protein term goes from 10 to 15.
C5_ScoreMonotonicInProtein ==
    scoreOut # <<>> =>
        /\ \A lower \in ProteinInputs :
              lower <= scoreIn.averageProteinDaily.n =>
                  calculateNutritionScore(
                      [scoreIn EXCEPT !.averageProteinDaily = Frac(lower, Scale)])
                  <= scoreOut[1]
        /\ proteinPoints(Frac(119, 1)) = 10
        /\ proteinPoints(Frac(120, 1)) = 15

\* C5 happens: a call at 120 g of protein returns 5 more than the call at
\* 119 g with the same other inputs
C5_Witness ==
    /\ scoreOut # <<>>
    /\ scoreIn.averageProteinDaily = Frac(Units(120), Scale)
    /\ scoreOut[1] =
           5 + calculateNutritionScore(
                   [scoreIn EXCEPT !.averageProteinDaily = Frac(Units(119), Scale)])

\* the trend series and the column each one adds up
TrendColumns ==
    [calories |-> "calories", protein |-> "protein_g",
     carbs |-> "carbs_g", fats |-> "fats_g"]

\* meal m was uploaded in day i (0, 1, ...) counted from startDate
InDay(m, i) ==
    /\ startDate + i * MinutesPerDay <= m.upload_time
    /\ m.upload_time < startDate + (i + 1) * MinutesPerDay

\* the sum of a column over the fetched meals of day i, in stored units
ReqDaySum(col, i) ==
    Sum([j \in 1..Len(meals) |->
            IF InDay(meals[j], i) /\ meals[j][col] # Null
            THEN meals[j][col] ELSE 0])

\* C6 as stated: each trend series has 7 buckets, bucket i holds the sum of
\* the nutrient over exactly the meals of day i, meals of other days count
\* nowhere, and the 7 buckets add up to the sum over the meals of days 0..6.
C6_BucketsHoldDaySums ==
    (pc = "done" /\ Len(meals) > 0) =>
        \A series \in DOMAIN TrendColumns :
            /\ Len(result.weeklyTrends[series]) = 7
            /\ \A i \in 0..6 :
                  result.weeklyTrends[series][i + 1] * Scale
                      = ReqDaySum(TrendColumns[series], i)
            /\ Sum(result.weeklyTrends[series]) * Scale
                  = Sum([i \in 1..7 |-> ReqDaySum(TrendColumns[series], i - 1)])

\* C6 amended: each trend series has 7 buckets, bucket i holds the sum of
\* the nutrient over exactly the meals of day i rounded to the nearest
\* integer (a half goes up), meals of other days count nowhere whatever the
\* period, and the 7 buckets add up to the sum over the meals of days 0..6
\* whenever each day's sum is a whole number.
C6_BucketsHoldRoundedDaySums ==
    (pc = "done" /\ Len(meals) > 0) =>
        \A series \in DOMAIN TrendColumns :
            LET col == TrendColumns[series]
            IN  /\ Len(result.weeklyTrends[series]) = 7
                /\ \A i \in 0..6 :
                      result.weeklyTrends[series][i + 1]
                          = (2 * ReqDaySum(col, i) + Scale) \div (2 * Scale)
                /\ (\A i \in 0..6 : ReqDaySum(col, i) % Scale = 0) =>
                      Sum(result.weeklyTrends[series]) * Scale
                          = Sum([i \in 1..7 |-> ReqDaySum(col, i - 1)])

\* C6 happens: a month request fetched a meal of a day after the seventh
\* and a day of the first seven whose protein sum is not a whole number
C6_Witness ==
    /\ pc = "done"
    /\ period = "month"
    /\ \E j \in 1..Len(meals) :
          meals[j].upload_time >= startDate + 7 * MinutesPerDay
          /\ meals[j].protein_g # Null /\ meals[j].protein_g > 0
    /\ \E i \in 0..6 : ReqDaySum("protein_g", i) % Scale # 0

\* C7: missedMealsAlert is never negative; in a computed result it is
\* max(0, 3 * totalDays - mealCount), so 0 once mealCount reaches
\* 3 * totalDays.
C7_MissedMealsNeverNegative ==
    pc = "done" =>
        /\ result.missedMealsAlert >= 0
        /\ Len(meals) > 0 =>
              result.missedMealsAlert =
                  (IF 3 * ReqTotalDays > Len(meals)
                   THEN 3 * ReqTotalDays - Len(meals) ELSE 0)

\* C7 happens: more meals were fetched than three a day
C7_Witness ==
    /\ pc = "done"
    /\ Len(meals) > 3 * ReqTotalDays
    /\ result.missedMealsAlert = 0

NominalDays ==
    CASE period = "week" -> 7
      [] period = "month" -> 30
      [] period = "custom" -> 14
      [] OTHER -> 1

\* the reported averages and the column each one averages
AverageColumns ==
    [averageCaloriesDaily |-> "calories", averageProteinDaily |-> "protein_g",
     averageCarbsDaily |-> "carbs_g", averageFatsDaily |-> "fats_g",
     averageFiberDaily |-> "fiber_g", averageSodiumDaily |-> "sodium_mg",
     averageSugarDaily |-> "sugar_g", averageFluidsDaily |-> "liquids_ml"]

\* C9: in a computed result each daily average is round(sum of the column
\* over the fetched meals / totalDays), null counting as 0, with totalDays 7
\* for week, 30 for month and 14 for custom.
C9_AveragesOverPeriodDays ==
    (pc = "done" /\ Len(meals) > 0) =>
        /\ ReqTotalDays = NominalDays
        /\ \A avg \in DOMAIN AverageColumns :
              result[avg] = MathRound(Frac(ReqColumnSum(AverageColumns[avg]),
                                           Scale * NominalDays))

\* the minutes after midnight a text "HH:MM" names
ClockMinutes(text) ==
    (10 * DigitValue(text[1]) + DigitValue(text[2])) * 60
    + 10 * DigitValue(text[4]) + DigitValue(text[5])

\* minutes rounded to whole hours, a half hour going up
WholeHours(minutes) == (minutes + 30) \div 60

\* the local time of day of a fetched meal, in minutes
MealMinuteOfDay(j) ==
    getHours(meals[j].upload_time) * 60 + getMinutes(meals[j].upload_time)

\* C10: intermittentFastingHours comes from the reported eating window: when
\* end > start it is 24 h - (end - start), otherwise start - end, rounded to
\* whole hours; meals at 09:00 and 21:00 only give 09:00, 21:00 and 12 hours.
C10_FastingFromEatingWindow ==
    pc = "done" =>
        LET start == ClockMinutes(result.averageEatingHours.start)
            end == ClockMinutes(result.averageEatingHours.end)
        IN  /\ result.intermittentFastingHours =
                   (IF end > start THEN WholeHours(24 * 60 - (end - start))
                    ELSE WholeHours(start - end))
            /\ ({MealMinuteOfDay(j) : j \in 1..Len(meals)} = {9 * 60, 21 * 60}) =>
                   /\ result.averageEatingHours.start = <<"0", "9", ":", "0", "0">>
                   /\ result.averageEatingHours.end = <<"2", "1", ":", "0", "0">>
                   /\ result.intermittentFastingHours = 12

\* C10 happens: the fetched meals are at 09:00 and at 21:00
C10_Witness ==
    /\ pc = "done"
    /\ {MealMinuteOfDay(j) : j \in 1..Len(meals)} = {9 * 60, 21 * 60}
    /\ result.intermittentFastingHours = 12

\* the texts each insight rule can push
ScoreMessages ==
    {"Excellent nutrition habits", "Good nutrition foundation",
     "Could benefit from adjustments"}

ProteinNotes == {"Great protein intake", "Consider increasing protein"}

ProcessedNotes == {"High processed food intake", "Excellent focus on whole foods"}

MealsPerDayNotes == {"Consider logging more meals", "Ensure portion control"}

\* what one rule contributes: nothing, or one of its texts
AtMostOneOf(texts) == {<<>>} \cup {<<t>> : t \in texts}

\* text t is one of the entries of sequence s
Holds(s, t) == \E i \in 1..Len(s) : s[i] = t

\* the object of averages that getNutritionStatistics hands to
\* generateInsights
ReqInsightData ==
    [averageCaloriesDaily |-> ReqAverage("calories"),
     averageProteinDaily |-> ReqAverage("protein_g"),
     averageFiberDaily |-> ReqAverage("fiber_g"),
     processedFoodPercentage |-> ReqProcessedExact,
     nutritionScore |-> result.nutritionScore,
     mealCount |-> Len(meals),
     totalDays |-> ReqTotalDays]

\* the insights field of the result holds an array of texts
InsightsIsArray == "array" \in DOMAIN result.insights

\* C11: the insights of a computed result are a sequence that starts with
\* the one score message of the score's band (80 and more, 60 and more,
\* less), no other entry is a score message, and the rest is at most one
\* protein note, then at most one processed-food note, then at most one
\* meals-per-day note: 1 to 4 entries.
C11_InsightsStartWithOneScoreMessage ==
    (pc = "done" /\ Len(meals) > 0) =>
        /\ InsightsIsArray
        /\ Len(result.insights.array) \in 1..4
        /\ result.insights.array[1] =
               (IF result.nutritionScore >= 80 THEN "Excellent nutrition habits"
                ELSE IF result.nutritionScore >= 60
                     THEN "Good nutrition foundation"
                ELSE "Could benefit from adjustments")
        /\ \A i \in 2..Len(result.insights.array) :
               result.insights.array[i] \notin ScoreMessages
        /\ \E a \in AtMostOneOf(ProteinNotes), b \in AtMostOneOf(ProcessedNotes),
              c \in AtMostOneOf(MealsPerDayNotes) :
               Tail(result.insights.array) = a \o b \o c

\* text t is one of the insights of the result
HasInsight(t) == InsightsIsArray /\ Holds(result.insights.array, t)

\* C12: in a computed result the positive protein note is there exactly when
\* the average protein is 120 or more and the improvement note exactly when
\* it is under 80; the processed-food warning exactly when the processed
\* share is over 30 and the positive note exactly when it is under 15; "log
\* more" exactly when meals / totalDays is under 2 and "portion control"
\* exactly when it is over 5.  The average and the share are the values
\* before rounding.
C12_InsightThresholds ==
    (pc = "done" /\ Len(meals) > 0) =>
        /\ HasInsight("Great protein intake")
               <=> ~Below(ReqAverage("protein_g"), 120)
        /\ HasInsight("Consider increasing protein")
               <=> Below(ReqAverage("protein_g"), 80)
        /\ HasInsight("High processed food intake")
               <=> Above(ReqProcessedExact, 30)
        /\ HasInsight("Excellent focus on whole foods")
               <=> Below(ReqProcessedExact, 15)
        /\ HasInsight("Consider logging more meals")
               <=> Len(meals) < 2 * ReqTotalDays
        /\ HasInsight("Ensure portion control")
               <=> Len(meals) > 5 * ReqTotalDays

\* C13: the recommendations of a computed result end with the reminder;
\* before it come, in this order, the protein text exactly when the average
\* protein is under 100, the fiber text exactly when the average fiber is
\* under 20, the processed-food text exactly when the processed share is
\* over 25, and one calorie text: "eating enough" exactly when the average
\* calories are under 1500, "monitor portions" exactly when over 2500, never
\* both.
C13_RecommendationsEndWithReminder ==
    (pc = "done" /\ Len(meals) > 0) =>
        /\ Len(result.recommendations) >= 1
        /\ result.recommendations[Len(result.recommendations)]
               = "Stay hydrated and maintain regular meal timing"
        /\ ~(Holds(result.recommendations, "Eating enough")
             /\ Holds(result.recommendations, "Monitor portion sizes"))
        /\ result.recommendations =
               (IF Below(ReqAverage("protein_g"), 100)
                THEN <<"Add lean proteins">> ELSE <<>>)
               \o (IF Below(ReqAverage("fiber_g"), 20)
                   THEN <<"Increase fiber intake">> ELSE <<>>)
               \o (IF Above(ReqProcessedExact, 25)
                   THEN <<"Replace processed foods">> ELSE <<>>)
               \o (IF Below(ReqAverage("calories"), 1500)
                   THEN <<"Eating enough">> ELSE <<>>)
               \o (IF Above(ReqAverage("calories"), 2500)
                   THEN <<"Monitor portion sizes">> ELSE <<>>)
               \o <<"Stay hydrated and maintain regular meal timing">>

\* C13 happens: the processed-food rule fires and no other rule does
C13_Witness ==
    /\ pc = "done"
    /\ Len(meals) > 0
    /\ result.recommendations =
           <<"Replace processed foods",
             "Stay hydrated and maintain regular meal timing">>

\* the error the specification names for input that is not valid
InvalidInputError == [error |-> "InvalidInputError"]

\* the request is over: it returned or it threw
Over == pc \in {"done", "threw"}

\* the columns that hold numbers
NumericColumns ==
    {"calories", "protein_g", "carbs_g", "fats_g", "fiber_g", "sodium_mg",
     "sugar_g", "liquids_ml"}

\* a fetched meal holds a value that is not a number in a numeric column
FetchedNonNumeric ==
    \E j \in 1..Len(meals) : \E col \in NumericColumns : meals[j][col] = NaN

\* C16: a request that fetched a meal with a non-numeric value in a numeric
\* column ends with InvalidInputError and returns no statistics object.
C16_NonNumericFieldSignalsError ==
    (Over /\ FetchedNonNumeric) => result = InvalidInputError

\* C17: a request whose period is none of week, month and custom signals
\* InvalidInputError: once its fetch has succeeded it does not return a
\* statistics object.
C17_UnsupportedPeriodSignalsError ==
    (pc = "done" /\ period \notin Periods) => result = InvalidInputError

\* C18: a request whose fetch failed throws and returns nothing, so never
\* the default object; the default object is returned only after a fetch
\* that succeeded with no meal.
C18_FetchFailureIsNotDefault ==
    /\ pc = "threw" =>
          /\ result = FailedToGenerate
          /\ result # getDefaultStatistics
    /\ result = getDefaultStatistics => (pc = "done" /\ Len(meals) = 0)

\* C18 happens: the fetch failed while the table holds a meal of the period
C18_Witness ==
    /\ pc = "threw"
    /\ result = FailedToGenerate
    /\ Len(findMany(store, startDate, endDate)) > 0

\* what a request returns when it runs with nothing beside it: the result of
\* the single request of Return for this meal list, period and 'now'
RunAlone(ms, p, now) ==
    IF Len(ms) = 0 THEN getDefaultStatistics
    ELSE computedStatistics(ms, setDateBack(now, periodDays(p)), now)

\* the statistics object as it was returned: a Promise it holds had not
\* settled
AsReturned(statistics) ==
    IF "promise" \in DOMAIN statistics.insights
    THEN [statistics EXCEPT !.insights = PendingPromise]
    ELSE statistics

\* two requests that returned got the same meal list, period and 'now'
SameInputs(r1, r2) ==
    /\ reqs[r1].pc = "done"
    /\ reqs[r2].pc = "done"
    /\ reqs[r1].meals = reqs[r2].meals
    /\ reqs[r1].period = reqs[r2].period
    /\ reqs[r1].endDate = reqs[r2].endDate

\* a step of the requests leaves the meal tables as they are, and changes
\* the variables of one request only
TouchesOwnStateOnly ==
    reqs' # reqs =>
        /\ tables' = tables
        /\ \E r \in RequestIds :
              \A o \in RequestIds \ {r} : reqs'[o] = reqs[o]

C15_RequestsAreIndependent ==
    \A r \in RequestIds :
        reqs[r].pc = "done" =>
            /\ AsReturned(reqs[r].result) =
                   RunAlone(reqs[r].meals, reqs[r].period, reqs[r].endDate)
            /\ \A i \in 1..Len(reqs[r].meals) :
                   /\ BagIn(reqs[r].meals[i], tables[reqs[r].user])
                   /\ reqs[r].meals[i].upload_time >= reqs[r].startDate
                   /\ reqs[r].meals[i].upload_time <= reqs[r].endDate

\* C15 happens: a request of one user returned while a request of another
\* user, for another period and with another meal list, is between its fetch
\* and its return
C15_Witness ==
    /\ reqs["r1"].pc = "done"
    /\ reqs["r2"].pc = "fetched"
    /\ reqs["r1"].user # reqs["r2"].user
    /\ reqs["r1"].period # reqs["r2"].period
    /\ Len(reqs["r1"].meals) > 0
    /\ Len(reqs["r2"].meals) > 0
    /\ reqs["r1"].meals # reqs["r2"].meals

\* C19: for an existing user, whatever the interleaving of the calls, the
\* calls admitted to the analysis since the last reset are never more than
\* the user's limit (10, 50, 200, and 10 for a subscription type that is
\* none of the three), and the stored aiRequestsCount is their number.
C19_QuotaEnforced ==
    userRow # NoRow =>
        /\ admitted <= userLimitOf(userRow.subscription_type)
        /\ userRow.aiRequestsCount = admitted

\* the call made now is made at least 24 hours after the stored
\* aiRequestsResetAt
DayAfterReset == clock - userRow.aiRequestsResetAt >= ResetHours * MinutesPerHour

\* C20: a call reaches the limit check without a reset only when it is made
\* less than 24 hours after aiRequestsResetAt, so a call made later is never
\* rejected; and a step that lowers aiRequestsCount or changes
\* aiRequestsResetAt is the reset of a call made at least 24 hours after
\* aiRequestsResetAt, which sets the count to 0 and aiRequestsResetAt to the
\* current time.
C20_ResetAfterADayAndOnlyThen ==
    [][userRow # NoRow =>
          /\ \A c \in CallIds :
                (calls[c].pc = "found" /\ calls'[c].pc \in {"rejected", "analyzing"})
                    => ~DayAfterReset
          /\ (userRow'.aiRequestsCount < userRow.aiRequestsCount
              \/ userRow'.aiRequestsResetAt # userRow.aiRequestsResetAt)
                 => /\ DayAfterReset
                    /\ userRow'.aiRequestsCount = 0
                    /\ userRow'.aiRequestsResetAt = clock]_vars

\* C23: a request that fetched meals makes no other fetch: its call of
\* this.generateInsights runs the threshold rules on the averages and puts
\* their sequence of texts in the result; it makes no call of
\* getNutritionStatistics and leaves no Promise behind.
C23_InsightsCallIsTheRuleGenerator ==
    (pc = "done" /\ Len(meals) > 0) =>
        /\ InsightsIsArray
        /\ result.insights = ArrayOf(generateInsights(ReqInsightData))

\* the two digits of a number under 100
TwoDigits(k) == <<DigitChars[(k \div 10) + 1], DigitChars[(k % 10) + 1]>>

\* the number of fetched meals uploaded in hour h of the day
MealsInHour(h) ==
    Cardinality({j \in 1..Len(meals) : getHours(meals[j].upload_time) = h})

\* hour h holds as many meals as any hour
IsTopHour(h) == \A g \in 0..23 : MealsInHour(g) <= MealsInHour(h)

\* the first of the hours that hold the most meals, the hour buckets being
\* gone through in the order of their keys
FirstTopHour == CHOOSE h \in 0..23 : IsTopHour(h) /\ \A g \in 0..(h - 1) : ~IsTopHour(g)

\* C21: mostCommonMealTime of a computed result is HH:00 for the hour of day
\* that holds the most meals, and of several such hours for the one that
\* comes first in the iteration over the hour buckets.
C21_MostCommonMealTimeFirstOnTie ==
    (pc = "done" /\ Len(meals) > 0) =>
        result.generalStats.mostCommonMealTime
            = TwoDigits(FirstTopHour) \o <<":", "0", "0">>

\* the times of day of the fetched meals, in minutes
MealMinutes == {MealMinuteOfDay(j) : j \in 1..Len(meals)}

\* the text HH:MM of a time of day in minutes
ClockText(minutes) ==
    TwoDigits(minutes \div 60) \o <<":">> \o TwoDigits(minutes % 60)

\* C22: in a computed result averageEatingHours.start is the earliest and
\* averageEatingHours.end the latest time of day (hour and minute) of the
\* fetched meals, as HH:MM; start is never after end, and they are equal
\* exactly when all meals share one time of day.
C22_EatingHoursAreMinAndMax ==
    (pc = "done" /\ Len(meals) > 0) =>
        LET earliest == CHOOSE x \in MealMinutes : \A y \in MealMinutes : x <= y
            latest == CHOOSE x \in MealMinutes : \A y \in MealMinutes : x >= y
        IN  /\ result.averageEatingHours.start = ClockText(earliest)
            /\ result.averageEatingHours.end = ClockText(latest)
            /\ ClockMinutes(result.averageEatingHours.start)
                   <= ClockMinutes(result.averageEatingHours.end)
            /\ (result.averageEatingHours.start = result.averageEatingHours.end)
                   <=> Cardinality(MealMinutes) = 1

\* C22 happens: of the meals fetched the one uploaded first is not the
\* earliest in the day, and the earliest is not at a whole hour
C22_Witness ==
    /\ pc = "done"
    /\ Len(meals) >= 2
    /\ \E j \in 2..Len(meals) :
          /\ MealMinuteOfDay(j) < MealMinuteOfDay(1)
          /\ MealMinuteOfDay(j) % 60 # 0
    /\ result.averageEatingHours.start # result.averageEatingHours.end

\* the call takes the step that throws the limit error
Denied(c) == calls[c].pc # "rejected" /\ calls'[c].pc = "rejected"

\* the call takes the step after which the analysis is started
Admitted(c) == calls[c].pc # "analyzing" /\ calls'[c].pc = "analyzing"

\* C25: the step that denies a call is taken with the count the call holds
\* at or over the user's limit; it throws the limit error naming that limit
\* and writes nothing to the user row; the call was not at the analysis
\* before and never comes to it afterwards.
C25_DeniedCallWritesNothing ==
    [][\A c \in CallIds :
          /\ Denied(c) =>
                /\ calls[c].aiRequestsCount
                      >= userLimitOf(userRow.subscription_type)
                /\ calls'[c].out
                      = LimitReached(userLimitOf(userRow.subscription_type))
                /\ userRow' = userRow
                /\ admitted' = admitted
                /\ calls[c].pc \in {"found", "reset"}
          /\ calls[c].pc = "rejected" => calls'[c] = calls[c]]_vars

\* C25 happens: a call was denied and the stored count is at the limit
C25_Witness ==
    /\ userRow # NoRow
    /\ \E c \in CallIds :
          /\ calls[c].pc = "rejected"
          /\ calls[c].out = LimitReached(10)
    /\ userRow.aiRequestsCount = 10

\* C26: for an existing user the step that admits a call to the analysis
\* leaves the stored aiRequestsCount one higher than it was, and the end
\* of the analysis, returned or thrown, leaves the user row as it is.
C26_EveryAdmittedCallCountsOne ==
    [][userRow # NoRow =>
          \A c \in CallIds :
              /\ Admitted(c) =>
                    userRow'.aiRequestsCount = userRow.aiRequestsCount + 1
              /\ (calls[c].pc = "analyzing" /\ calls'[c].pc = "over") =>
                    userRow' = userRow]_vars

\* the goal bonus by the average of calories a day alone: 20 from 1800 kcal
\* up without an upper end, 15 in [1600, 1800), 10 in [1400, 1600)
GoalBonusByAverage ==
    LET kcal == ReqColumnSum("calories")
        day == Scale * ReqTotalDays
    IN  IF kcal >= 1800 * day THEN 20
        ELSE IF kcal >= 1600 * day THEN 15
        ELSE IF kcal >= 1400 * day THEN 10
        ELSE 0

\* C29: the goal term in the score of a computed result depends on the
\* average of calories a day by its lower band limits only: it is 20 for
\* every average of 1800 kcal or more, however far over the 2000 kcal goal,
\* 15 only in [1600, 1800) and 10 only in [1400, 1600); the score is 50
\* plus that term and the protein, fiber and processed-food terms.
C29_UpperBandLimitsNeverCrossed ==
    (pc = "done" /\ Len(meals) > 0) =>
        result.nutritionScore =
            50 + GoalBonusByAverage
               + proteinPoints(ReqAverage("protein_g"))
               + fiberPoints(ReqAverage("fiber_g"))
               + processedPoints(processedShare(meals))

\* C29 happens: the average is over 130% of the goal and the bonus is 20
C29_Witness ==
    /\ pc = "done"
    /\ Len(meals) > 0
    /\ ReqColumnSum("calories") > 2600 * Scale * ReqTotalDays
    /\ GoalBonusByAverage = 20
    /\ result.nutritionScore >= 70

\* C30: in a computed result fullLoggingPercentage is
\* min(100, round(100 * mealCount / (3 * totalDays))), an integer from 0 to
\* 100, and it is 100 exactly when missedMealsAlert is 0, which is when
\* mealCount is at least 3 * totalDays.
C30_FullLoggingIsCappedShare ==
    (pc = "done" /\ Len(meals) > 0) =>
        /\ result.fullLoggingPercentage =
               Min(100, (200 * Len(meals) + 3 * ReqTotalDays)
                            \div (6 * ReqTotalDays))
        /\ result.fullLoggingPercentage \in 0..100
        /\ result.fullLoggingPercentage = 100 <=> result.missedMealsAlert = 0
        /\ result.missedMealsAlert = 0 <=> Len(meals) >= 3 * ReqTotalDays

\* C30 happens: more meals than three a day were fetched, 100 is reported
C30_Witness ==
    /\ pc = "done"
    /\ Len(meals) > 3 * ReqTotalDays
    /\ result.fullLoggingPercentage = 100
    /\ result.missedMealsAlert = 0

\* the meal the call names, by the leading digits of its mealId
TargetId(o) == parseInt(ops[o].mealId)

\* the stored object of a row, empty when the column is null
StoredObject(id) ==
    IF mealRows[id].additives_json = JsonNull THEN EmptyObject
    ELSE mealRows[id].additives_json.object

\* the stored favorite flag of a row: set and true
StoredFavorite(id) ==
    /\ "isFavorite" \in DOMAIN StoredObject(id)
    /\ StoredObject(id)["isFavorite"] = TRUE

\* both calls have written and returned, on the same meal
BothDone(o1, o2) ==
    /\ o1 # o2
    /\ ops[o1].pc = "done"
    /\ ops[o2].pc = "done"
    /\ TargetId(o1) = TargetId(o2)

\* C24: once a saveMealFeedback and a toggleMealFavorite on the same meal
\* have both completed, in whatever order their reads and writes were
\* made, the stored additives_json holds the feedback given and the
\* favorite flag is set; once two toggleMealFavorite calls on a meal that
\* was not a favorite have both completed, the flag is back to not set.
C24_NoLostUpdate ==
    \A o1 \in OpIds, o2 \in OpIds :
        (BothDone(o1, o2) /\ ops[o2].method = "toggleMealFavorite") =>
            /\ ops[o1].method = "saveMealFeedback" =>
                  /\ "feedback" \in DOMAIN StoredObject(TargetId(o1))
                  /\ StoredObject(TargetId(o1))["feedback"].tasteRating
                        = ops[o1].feedback.tasteRating
                  /\ StoredFavorite(TargetId(o1))
            /\ ops[o1].method = "toggleMealFavorite" =>
                  ~StoredFavorite(TargetId(o1))

\* the call names a meal that is not in the table or is another user's
NotOwnMeal(o) ==
    \/ TargetId(o) \notin MealIds
    \/ mealRows[TargetId(o)] = NoMeal
    \/ mealRows[TargetId(o)].user_id # ops[o].user_id

\* C27: a call of one of the four methods that names a meal not in the
\* table or owned by another user throws the not-found error at its first
\* step, which leaves the table as it is; and in every step a row that
\* changes is changed by a call of its owner, and a row that appears
\* belongs to the caller and copies a meal of the caller.
C27_NotFoundLeavesTheTable ==
    [][/\ \A o \in OpIds :
              (ops[o].pc = "called" /\ NotOwnMeal(o) /\ ops'[o] # ops[o]) =>
                  /\ ops'[o].pc = "threw"
                  /\ ops'[o].out = (IF ops[o].method = "duplicateMeal"
                                    THEN OriginalMealNotFound
                                    ELSE MealNotFound)
                  /\ mealRows' = mealRows
       /\ \A id \in MealIds :
              mealRows'[id] # mealRows[id] =>
                  \E o \in OpIds :
                      /\ ops'[o] # ops[o]
                      /\ mealRows'[id].user_id = ops[o].user_id
                      /\ IF mealRows[id] # NoMeal
                         THEN mealRows[id].user_id = ops[o].user_id
                         ELSE LET from ==
                                      mealRows'[id].additives_json
                                          .object["duplicatedFrom"]
                              IN  mealRows[from].user_id = ops[o].user_id]_vars

\* C27 happens: u1 called a method on the meal of u2, which threw, and u2
\* called duplicateMeal on an id no meal has, which threw
C27_Witness ==
    \E o1 \in OpIds, o2 \in OpIds :
        /\ ops[o1].pc = "threw"
        /\ ops[o1].user_id = "u1"
        /\ ops[o1].mealId = <<"2">>
        /\ ops[o1].out = MealNotFound
        /\ ops[o2].pc = "threw"
        /\ ops[o2].mealId = <<"7">>
        /\ ops[o2].out = OriginalMealNotFound

\* the keys the method of the call writes
OwnKeys(o) ==
    IF ops[o].method = "saveMealFeedback" THEN {"feedback"}
    ELSE {"isFavorite", "favoriteUpdatedAt"}

\* the call writes additives_json in this step, and the row is as the
\* call read it: no other call wrote in between
SequentialWrite(o) ==
    /\ ops[o].pc = "found"
    /\ ops'[o].pc = "done"
    /\ ops[o].method \in {"saveMealFeedback", "toggleMealFavorite"}
    /\ ops[o].meal = mealRows[TargetId(o)]

\* the flag after toggling a row twice, one call after the other
ToggledTwice(id) ==
    LET once == [mealRows[id] EXCEPT
                    !.additives_json =
                        JsonObject(favoriteAdditives(mealRows[id], clock))]
        twice == [once EXCEPT
                     !.additives_json =
                         JsonObject(favoriteAdditives(once, clock))]
    IN  currentFavorite(twice)

\* C28: a toggleMealFavorite call that no other write interleaves with
\* returns isFavorite equal to the negation of the stored flag, a meal
\* without the flag counting as not favorite, and stores that value;
\* toggling a row twice gives the stored flag back; and such a call of
\* toggleMealFavorite or saveMealFeedback keeps every key of
\* additives_json that is not its own, with its value.
C28_ToggleIsAnInvolution ==
    [][/\ \A o \in OpIds :
              SequentialWrite(o) =>
                  /\ ops[o].method = "toggleMealFavorite" =>
                        /\ ops'[o].out.isFavorite = ~StoredFavorite(TargetId(o))
                        /\ ops'[o].out.meal.isFavorite = ops'[o].out.isFavorite
                        /\ mealRows'[TargetId(o)].additives_json
                               .object["isFavorite"] = ops'[o].out.isFavorite
                  /\ \A k \in DOMAIN StoredObject(TargetId(o)) \ OwnKeys(o) :
                        /\ k \in DOMAIN mealRows'[TargetId(o)].additives_json
                                            .object
                        /\ mealRows'[TargetId(o)].additives_json.object[k]
                              = StoredObject(TargetId(o))[k]
       /\ \A id \in MealIds :
              mealRows[id] # NoMeal =>
                  ToggledTwice(id) = StoredFavorite(id)]_vars

\* C28 happens: a meal with a note got a feedback from one call and was
\* then toggled by the next, which returned true; the note and the
\* feedback are still stored beside the flag
C28_Witness ==
    /\ ops["p"].pc = "over"
    /\ ops["q"].pc = "done"
    /\ ops["q"].method = "toggleMealFavorite"
    /\ ops["q"].mealId = <<"1">>
    /\ ops["q"].out.isFavorite = TRUE
    /\ ops["q"].meal.additives_json # JsonNull
    /\ "feedback" \in DOMAIN ops["q"].meal.additives_json.object
    /\ "feedback" \in DOMAIN StoredObject(1)
    /\ "note" \in DOMAIN StoredObject(1)
    /\ StoredFavorite(1)

==========================================================================
